---- MODULE Spec2Model ----
(***************************************************************************)
(* Identity federation edge function `clerk-jwt-verify`.                   *)
(*                                                                         *)
(* Two handlers of the repository are modelled side by side, selected by   *)
(* the variable `impl`:                                                    *)
(*   "session" : supabase/functions/clerk-jwt-verify/index.ts              *)
(*               (magic-link session + 55 s session cache)                 *)
(*   "mint"    : unnamed/part_003, lines 1-262                             *)
(*               (HS256 token minted with SUPABASE_JWT_SECRET, no cache)   *)
(*                                                                         *)
(* JavaScript strings that the code inspects (trim, includes, template     *)
(* literals, hex formatting) are sequences of one-character strings.       *)
(* Values that are only compared (issuer, audience, address, env names,    *)
(* error codes) are TLA+ strings.                                          *)
(***************************************************************************)
EXTENDS Integers, Sequences, FiniteSets, TLC

(***************************************************************************)
(* Bounds of the model                                                     *)
(***************************************************************************)
NumSlots == 2      \* requests in flight at the same time
MaxSkew == 1       \* arrival instants are offset by 0..MaxSkew ms
NumCalls == 2      \* bootstrap requests and procedure calls in flight

(***************************************************************************)
(* Program constants                                                       *)
(***************************************************************************)
RATE_LIMIT_MAX == 10
RATE_LIMIT_WINDOW_MS == 60000
SESSION_CACHE_TTL_MS == 55000
MINT_TTL_S == 3600           \* 60 * 60, "1 hour"

(***************************************************************************)
(* JavaScript values                                                       *)
(***************************************************************************)
Undefined == <<"undefined">>          \* not a string: no one-character element
IsString(v) == v # Undefined
Whitespace == {" ", "\t", "\n"}

RECURSIVE TrimStart(_)
TrimStart(s) ==
    IF s = <<>> THEN <<>>
    ELSE IF Head(s) \in Whitespace THEN TrimStart(Tail(s)) ELSE s

RECURSIVE TrimEnd(_)
TrimEnd(s) ==
    IF s = <<>> THEN <<>>
    ELSE IF s[Len(s)] \in Whitespace THEN TrimEnd(SubSeq(s, 1, Len(s) - 1)) ELSE s

Trim(s) == TrimEnd(TrimStart(s))

Includes(s, c) == \E i \in 1..Len(s) : s[i] = c

\* function isNonEmptyString(v): typeof v === 'string' && v.trim().length > 0
isNonEmptyString(v) == IsString(v) /\ Len(Trim(v)) > 0

\* function pickEmail(payload): first candidate that is a non-empty string with '@'
pickEmailCandidates(payload) ==
    << payload.email, payload.email_address,
       payload.primary_email_address, payload.preferred_username >>

RECURSIVE pickEmailFrom(_)
pickEmailFrom(cs) ==
    IF cs = <<>> THEN Undefined
    ELSE IF isNonEmptyString(Head(cs)) /\ Includes(Head(cs), "@") THEN Head(cs)
    ELSE pickEmailFrom(Tail(cs))

pickEmail(payload) == pickEmailFrom(pickEmailCandidates(payload))

\* `clerk+${clerkUserId}@example.invalid`
PlaceholderEmail(clerkUserId) ==
    <<"c","l","e","r","k","+">> \o clerkUserId \o
    <<"@","e","x","a","m","p","l","e",".","i","n","v","a","l","i","d">>

(***************************************************************************)
(* Deterministic identity mapping (UUID v5)                                *)
(***************************************************************************)
HexDigits == <<"0","1","2","3","4","5","6","7","8","9","a","b","c","d","e","f">>

HexValue(c) == CHOOSE n \in 0..15 : HexDigits[n + 1] = c

\* '6ba7b811-9dad-11d1-80b4-00c04fd430c8'
NamespaceDns ==
    <<"6","b","a","7","b","8","1","1","-","9","d","a","d","-","1","1","d","1","-",
      "8","0","b","4","-","0","0","c","0","4","f","d","4","3","0","c","8">>

\* uuid.replace(/-/g, '')
StripHyphens(s) == SelectSeq(s, LAMBDA c : c # "-")

\* function uuidToBytes(uuid)
uuidToBytes(uuid) ==
    LET hex == StripHyphens(uuid)
    IN  [i \in 1..16 |-> HexValue(hex[2 * i - 1]) * 16 + HexValue(hex[2 * i])]

\* b.toString(16).padStart(2, '0')
ByteToHex(b) == << HexDigits[(b \div 16) + 1], HexDigits[(b % 16) + 1] >>

RECURSIVE HexOf(_)
HexOf(bytes) ==
    IF bytes = <<>> THEN <<>> ELSE ByteToHex(Head(bytes)) \o HexOf(Tail(bytes))

\* function bytesToUuid(bytes)
bytesToUuid(bytes) ==
    LET hex == HexOf(bytes)
    IN  SubSeq(hex, 1, 8) \o <<"-">> \o SubSeq(hex, 9, 12) \o <<"-">> \o
        SubSeq(hex, 13, 16) \o <<"-">> \o SubSeq(hex, 17, 20) \o <<"-">> \o
        SubSeq(hex, 21, 32)

\* new TextEncoder().encode(name), for the ASCII characters the model uses
CharCode(c) ==
    CASE c = "u" -> 117 [] c = "1" -> 49 [] c = "2" -> 50 [] c = "3" -> 51
      [] c = "s" -> 115 [] c = "e" -> 101 [] c = "r" -> 114 [] c = "t" -> 116
      [] c = "_" -> 95 [] c = "4" -> 52

Utf8(name) == [i \in 1..Len(name) |-> CharCode(name[i])]

\* crypto.subtle.digest('SHA-1', data): the digests of the inputs the model
\* uses, tabulated from SHA-1 (20 bytes each).
Sha1Table ==
    { << <<107,167,184,17,157,173,17,209,128,180,0,192,79,212,48,200,117,49>>,
         <<20,14,128,35,43,163,62,201,245,226,147,180,56,229,98,128,21,203,94,171>> >>,
      << <<107,167,184,17,157,173,17,209,128,180,0,192,79,212,48,200,117,50>>,
         <<71,132,232,207,62,126,125,100,157,178,76,129,205,76,124,54,89,228,84,75>> >>,
      << <<107,167,184,17,157,173,17,209,128,180,0,192,79,212,48,200,
           117,115,101,114,95,116,101,115,116,95,49,50,51>>,
         <<53,216,63,48,133,201,72,83,177,66,166,54,251,122,10,149,50,15,141,90>> >>,
      << <<107,167,184,17,157,173,17,209,128,180,0,192,79,212,48,200,
           117,115,101,114,95,116,101,115,116,95,49,50,52>>,
         <<229,80,216,14,127,148,188,2,196,15,240,38,234,38,134,249,91,232,139,118>> >> }

Sha1(data) == (CHOOSE e \in Sha1Table : e[1] = data)[2]

\* a digest whose version nibble is set and whose variant bits are left
SetVersionOnly(bytes) ==
    [i \in 1..16 |-> IF i = 7 THEN (bytes[i] % 16) + 80 ELSE bytes[i]]

\* bytes[6] = (bytes[6] & 0x0f) | 0x50; bytes[8] = (bytes[8] & 0x3f) | 0x80
\* (JavaScript indexes from 0: bytes[6] is the 7th byte, bytes[8] the 9th)
SetVersionAndVariant(bytes) ==
    [i \in 1..16 |->
        IF i = 7 THEN (bytes[i] % 16) + 80
        ELSE IF i = 9 THEN (bytes[i] % 64) + 128
        ELSE bytes[i]]

\* the callback of uuidV5FromString on the digest: slice(0, 16), the
\* version and variant bits, bytesToUuid
uuidV5OfDigest(hash) == bytesToUuid(SetVersionAndVariant(SubSeq(hash, 1, 16)))

\* function uuidV5FromString(name, namespaceUuid)
uuidV5FromString(name, namespaceUuid) ==
    LET nsBytes == uuidToBytes(namespaceUuid)
        data == nsBytes \o Utf8(name)
        hash == Sha1(data)
    IN  uuidV5OfDigest(hash)

\* a mapper that leaves the variant bits of the digest as they are
uuidv5_nodeNoVariant(name, namespaceUuid) ==
    LET nsBytes == uuidToBytes(namespaceUuid)
        hash == Sha1(nsBytes \o Utf8(name))
        bytes == SubSeq(hash, 1, 16)
    IN  bytesToUuid([bytes EXCEPT ![7] = (@ % 16) + 80])

\* function uuidv5_node(name, namespaceUuid) of the test suite: createHash
uuidv5_node(name, namespaceUuid) ==
    LET nsBytes == uuidToBytes(namespaceUuid)
        hash == Sha1(nsBytes \o Utf8(name))
        bytes == SubSeq(hash, 1, 16)
    IN  bytesToUuid([bytes EXCEPT ![7] = (@ % 16) + 80, ![9] = (@ % 64) + 128])

\* function uuidv5_webcrypto(name, namespaceUuid) of the test suite:
\* crypto.subtle.digest over the namespace bytes followed by the name bytes
uuidv5_webcrypto(name, namespaceUuid) ==
    LET nsBytes == uuidToBytes(namespaceUuid)
        nameBytes == Utf8(name)
        data == [i \in 1..(Len(nsBytes) + Len(nameBytes)) |->
                    IF i <= Len(nsBytes) THEN nsBytes[i]
                    ELSE nameBytes[i - Len(nsBytes)]]
        bytes == SubSeq(Sha1(data), 1, 16)
    IN  bytesToUuid([bytes EXCEPT ![7] = (@ % 16) + 80, ![9] = (@ % 64) + 128])


(***************************************************************************)
(* Inputs: configuration, callers, request bodies                          *)
(***************************************************************************)
Slots == 1..NumSlots

Issuer == "https://clerk.example"
Audience == "supabase"
JwtSecret == "jwt-secret"

EnvNames == { "SUPABASE_URL", "SUPABASE_SERVICE_ROLE_KEY", "SUPABASE_JWT_SECRET",
              "CLERK_JWT_ISSUER", "CLERK_EXPECTED_AUDIENCE" }

\* Deno.env of a fully configured deployment; "" stands for an unset name
FullEnv ==
    [n \in EnvNames |->
        CASE n = "CLERK_JWT_ISSUER" -> Issuer
          [] n = "CLERK_EXPECTED_AUDIENCE" -> Audience
          [] n = "SUPABASE_JWT_SECRET" -> JwtSecret
          [] OTHER -> "set"]

EnvConfigs ==
    { FullEnv,
      [FullEnv EXCEPT !["SUPABASE_JWT_SECRET"] = ""],
      [FullEnv EXCEPT !["CLERK_EXPECTED_AUDIENCE"] = ""] }

Impls == {"session", "mint"}

\* external subjects and e-mail claims carried by inbound tokens
U1 == <<"u","1">>
U2 == <<"u","2">>
EmailA == <<"a","@","x">>
EmailB == <<"b","@","x">>

Claims(iss, aud, sub, email, username, exp) ==
    [iss |-> iss, aud |-> aud, sub |-> sub, exp |-> exp,
     email |-> email, email_address |-> Undefined,
     primary_email_address |-> Undefined, preferred_username |-> username]

\* a compact JWS as the caller sends it: well-formedness, signature, claims
Jwt(sigOk, payload) == [t |-> "jwt", sigOk |-> sigOk, payload |-> payload]

FarExp == 100000    \* seconds; later than every instant of the model
NearExp == 30       \* seconds; a token that expires while the model runs

TokA1 == Jwt(TRUE, Claims(Issuer, Audience, U1, EmailA, Undefined, FarExp))
TokB1 == Jwt(TRUE, Claims(Issuer, Audience, U1, <<"n","o">>, EmailB, FarExp))
TokN2 == Jwt(TRUE, Claims(Issuer, Audience, U2, Undefined, Undefined, FarExp))
TokA2 == Jwt(TRUE, Claims(Issuer, Audience, U2, EmailA, Undefined, FarExp))

ValidTokens == {TokA1, TokB1, TokN2, TokA2}

TokBadSig == Jwt(FALSE, Claims(Issuer, Audience, U1, EmailA, Undefined, FarExp))
TokBadIss == Jwt(TRUE, Claims("https://evil.example", Audience, U1, EmailA, Undefined, FarExp))
TokBadAud == Jwt(TRUE, Claims(Issuer, "other-app", U1, EmailA, Undefined, FarExp))
TokBlankSub == Jwt(TRUE, Claims(Issuer, Audience, <<" ">>, EmailA, Undefined, FarExp))
TokNoSub == Jwt(TRUE, Claims(Issuer, Audience, Undefined, EmailA, Undefined, FarExp))
TokEmptySub == Jwt(TRUE, Claims(Issuer, Audience, <<>>, EmailA, Undefined, FarExp))
TokExpiring == Jwt(TRUE, Claims(Issuer, Audience, U1, EmailA, Undefined, NearExp))
TokMalformed == [t |-> "str", s |-> <<"x">>]      \* a string that is no JWS

InvalidTokens ==
    { TokBadSig, TokBadIss, TokBadAud, TokBlankSub, TokNoSub, TokEmptySub,
      TokMalformed }

\* request bodies: { clerkToken: ... }, or a body that is not JSON
BodyNotJson == [t |-> "notjson"]
BodyNoToken == [t |-> "undefined"]
BodyBlankToken == [t |-> "str", s |-> <<" ">>]

Methods == {"POST", "OPTIONS", "GET"}
Ips == {"10.0.0.1", "10.0.0.2"}

\* instants at which the environment acts (ms)
Instants ==
    { b + o : b \in 0..MaxSkew,
              o \in {0, SESSION_CACHE_TTL_MS, RATE_LIMIT_WINDOW_MS} }

(***************************************************************************)
(* The application schema: what bootstrap_install() creates and what       *)
(* bootstrap_status() reads                                                *)
(***************************************************************************)
\* a schema object of schema public; cmd is the command of a policy
Obj(kind, table, name, cmd) ==
    [kind |-> kind, table |-> table, name |-> name, cmd |-> cmd]

Tables == {"profiles", "projects"}
Commands == {"select", "insert", "update", "delete"}

set_updated_at == Obj("function", "", "set_updated_at", "")
Table(t) == Obj("table", t, t, "")
idx_projects_user_id == Obj("index", "projects", "idx_projects_user_id", "")
\* the trigger <table>_set_updated_at
Trigger(t) == Obj("trigger", t, "set_updated_at", "")
\* relrowsecurity of a table
Rls(t) == Obj("rls", t, "relrowsecurity", "")
\* the policy <table>_<command>_own
Policy(t, cmd) == Obj("policy", t, "own", cmd)

\* the statements of bootstrap_install(), in the order of the function body:
\* each creates one object when its existence check finds it missing
InstallSteps ==
    << set_updated_at, Table("profiles"), Table("projects"),
       idx_projects_user_id,
       Trigger("profiles"), Trigger("projects"),
       Rls("profiles"), Rls("projects"),
       Policy("projects", "select"), Policy("projects", "insert"),
       Policy("projects", "update"), Policy("projects", "delete"),
       Policy("profiles", "select"), Policy("profiles", "update") >>

\* the objects the installer knows
InstallObjects == { InstallSteps[i] : i \in DOMAIN InstallSteps }

\* with them, the policies the installer does not create and the schema may
\* hold all the same (the RLS kit and the older migrations create them)
Objects ==
    InstallObjects \cup {Policy("profiles", "insert"), Policy("profiles", "delete")}

\* the rows of the application tables: one row per table is enough to see
\* whether user data survives
Rows == { [table |-> t, id |-> 1] : t \in Tables }

\* what an object needs in order to exist
Needs(o) ==
    CASE o.kind = "function" -> {}
      [] o.kind = "table"    -> {}
      [] o.kind = "trigger"  -> {Table(o.table), set_updated_at}
      [] OTHER               -> {Table(o.table)}

\* the schema states the database can be in: a trigger has its table and its
\* function, an index, an RLS flag, a policy and a row have their table
Consistent(objs, rows) ==
    /\ \A o \in objs : Needs(o) \subseteq objs
    /\ \A w \in rows : Table(w.table) \in objs

\* the existence check of a step, as the function body writes it
Exists(objs, o) == o \in objs

\* an installer whose steps create without looking
InstallStepUnguarded(st, o) ==
    [st EXCEPT !.objs = @ \cup {o}, !.did_change = TRUE]

\* an installer that makes its tables anew (drop table, create table)
InstallStepAnew(st, o) ==
    IF o.kind = "table"
    THEN [objs |-> { x \in st.objs : x.table # o.table } \cup {o},
          rows |-> { w \in st.rows : w.table # o.table },
          did_change |-> TRUE]
    ELSE IF Exists(st.objs, o)
    THEN st
    ELSE [st EXCEPT !.objs = @ \cup {o}, !.did_change = TRUE]

\* one step of the installer: the object is created if the check misses
\* it; no step has a statement that touches a row or drops anything
InstallStep(st, o) ==
    IF Exists(st.objs, o)
    THEN st
    ELSE [st EXCEPT !.objs = @ \cup {o}, !.did_change = TRUE]

RECURSIVE RunSteps(_, _)
RunSteps(st, i) ==
    IF i > Len(InstallSteps) THEN st
    ELSE RunSteps(InstallStep(st, InstallSteps[i]), i + 1)

\* function public.bootstrap_install(), run alone: the schema and the rows
\* it leaves, and its result
bootstrap_install(objs, rows) ==
    LET st == RunSteps([objs |-> objs, rows |-> rows, did_change |-> FALSE], 1)
    IN  [objs |-> st.objs, rows |-> st.rows,
         data |-> IF st.did_change
                  THEN [success |-> TRUE, bootstrapped |-> TRUE]
                  ELSE [success |-> TRUE, already_initialized |-> TRUE]]

\* count(*) from pg_policies where tablename = t
PolicyCount(objs, t) ==
    Cardinality({ o \in objs : o.kind = "policy" /\ o.table = t })

\* function public.bootstrap_status(): the report
bootstrap_status(objs) ==
    LET projects_table    == Table("projects") \in objs
        profiles_table    == Table("profiles") \in objs
        projects_rls      == Rls("projects") \in objs
        profiles_rls      == Rls("profiles") \in objs
        projects_policies == PolicyCount(objs, "projects")
        profiles_policies == PolicyCount(objs, "profiles")
        trig_projects     == Trigger("projects") \in objs
        trig_profiles     == Trigger("profiles") \in objs
        idx               == idx_projects_user_id \in objs
    IN  [success |-> TRUE,
         ready |-> /\ projects_table /\ profiles_table
                   /\ projects_rls /\ profiles_rls
                   /\ trig_projects /\ trig_profiles
                   /\ idx
                   /\ projects_policies >= 4
                   /\ profiles_policies >= 2,
         projects_table |-> projects_table,
         profiles_table |-> profiles_table,
         projects_rls |-> projects_rls,
         profiles_rls |-> profiles_rls,
         projects_policies |-> projects_policies,
         profiles_policies |-> profiles_policies,
         trig_projects |-> trig_projects,
         trig_profiles |-> trig_profiles,
         idx_projects_user_id |-> idx]

\* the roles of the hosted database that an API key can stand for
Roles == {"anon", "authenticated", "service_role"}

Procedures == {"bootstrap_install", "bootstrap_status"}

\* who holds EXECUTE on a function of schema public when it is created:
\* PUBLIC alone (the database's own default), or PUBLIC and the API roles
\* (default privileges of the hosted platform's schema public)
DefaultGrantees == { {"PUBLIC"}, {"PUBLIC"} \cup Roles }

\* revoke all on function ... from public; grant execute ... to service_role
MigrationAcl(grantees) == (grantees \ {"PUBLIC"}) \cup {"service_role"}

\* has_function_privilege(role, procedure, 'execute')
CanExecute(acl, role) == role \in acl \/ "PUBLIC" \in acl

\* the database after the two migrations were applied to a schema that
\* holds objs and rows; no migration grants anything on a table: grants are
\* the roles that hold the default privileges on the tables of the schema
Database(objs, rows, grantees) ==
    [objs |-> objs, rows |-> rows,
     acl |-> [p \in Procedures |-> MigrationAcl(grantees)],
     grants |-> grantees \ {"PUBLIC"}]

(***************************************************************************)
(* State                                                                   *)
(***************************************************************************)
VARIABLES
    impl,          \* which handler is deployed
    env,           \* Deno.env
    now,           \* Date.now()
    rateMap,       \* ip -> [count, resetAt]
    sessionCache,  \* userId -> [access_token, refresh_token, expiresAt]
    users,         \* auth.users of the hosted platform
    req,           \* the requests in flight, one per slot
    started,       \* number of requests received so far
    admitted,      \* history: ip -> [first, n], the admissions of the current
                   \* 60-second window, counted from its first admitted request
    db,            \* the database: schema objects, rows, procedure privileges
    calls,         \* the bootstrap requests and procedure calls in flight
    bootRate,      \* endpoint -> its rateMap (each function has its own)
    client         \* the program running on the client side, and its inputs

vars == << impl, env, now, rateMap, sessionCache, users, req, started, admitted,
          db, calls, bootRate, client >>

NoToken == [t |-> "none"]

NoReq ==
    [pc |-> "idle", method |-> "", ip |-> "", body |-> BodyNoToken,
     clerkUserId |-> Undefined, supabaseUserId |-> Undefined,
     email |-> Undefined,
     limited |-> FALSE,
     iat |-> 0, tokenHash |-> Undefined, ops |-> <<>>, resp |-> [status |-> 0]]

\* the endpoints of the installer and of the readiness report
BootEndpoints == {"bootstrap-system", "bootstrap-status"}

CallSlots == 1..NumCalls

\* a bootstrap request or a direct call of a procedure: kind is the endpoint
\* or "rpc"; proc and role are the procedure called and the role of the key
\* it is called with; step, made and did_change are the state of a running
\* bootstrap_install() (made: what its open transaction created)
NoCall ==
    [pc |-> "idle", kind |-> "", method |-> "", ip |-> "",
     body |-> BodyNoToken, proc |-> "", role |-> "",
     step |-> 0, made |-> {}, did_change |-> FALSE,
     ops |-> <<>>, resp |-> [status |-> 0]]

\* no client program is running
NoClient == [prog |-> "", pc |-> "idle"]

\* no bootstrap request yet, an empty schema, both migrations applied
BootIdle ==
    /\ db = Database({}, {}, {"PUBLIC"})
    /\ calls = [c \in CallSlots |-> NoCall]
    /\ bootRate = [e \in BootEndpoints |-> << >>]

Init ==
    /\ impl \in Impls
    /\ env \in EnvConfigs
    /\ now = 0
    /\ rateMap = << >>
    /\ sessionCache = << >>
    /\ users = {}
    /\ req = [r \in Slots |-> NoReq]
    /\ started = 0
    /\ admitted = << >>
    /\ BootIdle
    /\ client = NoClient


(***************************************************************************)
(* Responses                                                               *)
(***************************************************************************)
\* a response helper that drops the status it is given
jsonDefaultStatus(body, status) == [status |-> 200, body |-> body]

\* function json(body, status)
json(body, status) == [status |-> status, body |-> body]

Err(error, code) == [success |-> FALSE, error |-> error, code |-> code]
Ok(session) == [success |-> TRUE, session |-> session]

\* the handler returns: its locals are gone; the slot keeps the request, the
\* log of what was done for it and the response until it is reused
Respond(r, q, resp) ==
    req' = [req EXCEPT ![r] =
              [NoReq EXCEPT !.pc = "done", !.method = q.method, !.ip = q.ip,
                            !.body = q.body, !.limited = q.limited,
                            !.ops = q.ops, !.resp = resp]]

\* the log of a request: what the handler did, in order, as << step, answer >>
Op(q, entry) == [q EXCEPT !.ops = Append(@, entry)]

(***************************************************************************)
(* Rate limit and session cache                                            *)
(***************************************************************************)
\* a limiter that lets one request more through
checkRateLimitOffByOne(ip) ==
    IF ip \notin DOMAIN rateMap \/ now > rateMap[ip].resetAt
    THEN [ok |-> TRUE,
          map |-> (ip :> [count |-> 1, resetAt |-> now + RATE_LIMIT_WINDOW_MS])
                  @@ rateMap]
    ELSE IF rateMap[ip].count > RATE_LIMIT_MAX
    THEN [ok |-> FALSE, map |-> rateMap]
    ELSE [ok |-> TRUE, map |-> [rateMap EXCEPT ![ip].count = @ + 1]]

\* function checkRateLimit(ip): the verdict and the map it leaves behind
checkRateLimit(ip) ==
    IF ip \notin DOMAIN rateMap \/ now > rateMap[ip].resetAt
    THEN [ok |-> TRUE,
          map |-> (ip :> [count |-> 1, resetAt |-> now + RATE_LIMIT_WINDOW_MS])
                  @@ rateMap]
    ELSE IF rateMap[ip].count >= RATE_LIMIT_MAX
    THEN [ok |-> FALSE, map |-> rateMap]
    ELSE [ok |-> TRUE, map |-> [rateMap EXCEPT ![ip].count = @ + 1]]

\* a cache that serves whatever entry it holds, under any key
getCachedSessionShared(userId) ==
    IF DOMAIN sessionCache = {}
    THEN [hit |-> FALSE, session |-> NoToken, cache |-> sessionCache]
    ELSE LET k == CHOOSE u \in DOMAIN sessionCache : TRUE
         IN  [hit |-> TRUE,
              session |-> [access_token |-> sessionCache[k].access_token,
                           refresh_token |-> sessionCache[k].refresh_token],
              cache |-> sessionCache]

\* function getCachedSession(userId): the session served (or NoToken) and
\* the cache it leaves behind (an expired entry is deleted)
getCachedSession(userId) ==
    IF userId \notin DOMAIN sessionCache
    THEN [hit |-> FALSE, session |-> NoToken, cache |-> sessionCache]
    ELSE IF now > sessionCache[userId].expiresAt
    THEN [hit |-> FALSE, session |-> NoToken,
          cache |-> [u \in DOMAIN sessionCache \ {userId} |-> sessionCache[u]]]
    ELSE [hit |-> TRUE,
          session |-> [access_token |-> sessionCache[userId].access_token,
                       refresh_token |-> sessionCache[userId].refresh_token],
          cache |-> sessionCache]

\* function setCachedSession(userId, session)
setCachedSession(userId, session) ==
    (userId :> [access_token |-> session.access_token,
                refresh_token |-> session.refresh_token,
                expiresAt |-> now + SESSION_CACHE_TTL_MS]) @@ sessionCache

\* history of admissions: a request admitted more than 60 s after the first
\* admitted request of the current window opens a new window
Admit(ip) ==
    IF ip \in DOMAIN admitted /\ now - admitted[ip].first <= RATE_LIMIT_WINDOW_MS
    THEN [admitted EXCEPT ![ip].n = @ + 1]
    ELSE (ip :> [first |-> now, n |-> 1]) @@ admitted

(***************************************************************************)
(* Receive: the handler up to its first await on the verification          *)
(***************************************************************************)
\* getEnv(...) calls of the handler, in order; the mint handler also reads
\* SUPABASE_JWT_SECRET
RequiredEnv ==
    IF impl = "mint"
    THEN << "SUPABASE_URL", "SUPABASE_SERVICE_ROLE_KEY", "SUPABASE_JWT_SECRET",
            "CLERK_JWT_ISSUER", "CLERK_EXPECTED_AUDIENCE" >>
    ELSE << "SUPABASE_URL", "SUPABASE_SERVICE_ROLE_KEY",
            "CLERK_JWT_ISSUER", "CLERK_EXPECTED_AUDIENCE" >>

\* function getEnv(name) throws when the value is unset or empty
EnvMissing == \E i \in 1..Len(RequiredEnv) : env[RequiredEnv[i]] = ""

\* body.clerkToken as isNonEmptyString sees it
ClerkTokenPresent(body) ==
    CASE body.t = "undefined" -> FALSE
      [] body.t = "str" -> isNonEmptyString(body.s)
      [] body.t = "jwt" -> TRUE
      [] OTHER -> FALSE

PreflightSession ==
    [access_token |-> NoToken,
     refresh_token |-> IF impl = "mint" THEN "null" ELSE ""]

\* a handler that verifies the token before it consults the limiter
ReceiveVerifyFirst(r, method, ip, body) ==
    /\ req[r].pc \in {"idle", "done"}
    /\ UNCHANGED << client, db, calls, bootRate, impl, env, now, sessionCache, users >>
    /\ LET q0 == [NoReq EXCEPT !.method = method, !.ip = ip, !.body = body]
           rl == checkRateLimit(ip)
           q1 == [Op(Op(Op(q0, <<"jwks", "">>), <<"verify", "">>), <<"rate", "">>)
                    EXCEPT !.limited = ~rl.ok]
       IN  IF method = "OPTIONS"
           THEN Respond(r, q0, json(Ok(PreflightSession), 200))
                /\ UNCHANGED << rateMap, admitted >>
           ELSE IF method # "POST"
           THEN Respond(r, q0, json(Err("Method not allowed", "invalid_body"), 405))
                /\ UNCHANGED << rateMap, admitted >>
           ELSE /\ rateMap' = rl.map
                /\ admitted' = IF rl.ok THEN Admit(ip) ELSE admitted
                /\ IF ~rl.ok
                   THEN Respond(r, q1, json(Err("rate_limited", "rate_limited"), 429))
                   ELSE IF EnvMissing
                   THEN Respond(r, Op(q1, <<"env", "">>),
                                json(Err("Missing env", "env_missing"), 500))
                   ELSE IF body.t = "notjson"
                   THEN Respond(r, Op(Op(q1, <<"env", "">>), <<"body", "">>),
                                json(Err("Internal error", "internal_error"), 500))
                   ELSE IF ~ClerkTokenPresent(body)
                   THEN Respond(r, Op(Op(q1, <<"env", "">>), <<"body", "">>),
                                json(Err("Invalid body. Expected { clerkToken: string }",
                                         "invalid_body"), 400))
                   ELSE req' = [req EXCEPT ![r] =
                                  [Op(Op(q1, <<"env", "">>), <<"body", "">>) EXCEPT !.pc = "jwtVerify"]]

\* a handler that consults the limiter before it looks at the method
ReceiveLimitFirst(r, method, ip, body) ==
    /\ req[r].pc \in {"idle", "done"}
    /\ UNCHANGED << client, db, calls, bootRate, impl, env, now, sessionCache, users >>
    /\ LET q0 == [NoReq EXCEPT !.method = method, !.ip = ip, !.body = body]
           rl == checkRateLimit(ip)
           q1 == [Op(q0, <<"rate", "">>) EXCEPT !.limited = ~rl.ok]
       IN  IF method = "OPTIONS"
           THEN Respond(r, q1, json(Ok(PreflightSession), 200))
                /\ rateMap' = rl.map
                /\ admitted' = IF rl.ok THEN Admit(ip) ELSE admitted
           ELSE IF method # "POST"
           THEN Respond(r, q0, json(Err("Method not allowed", "invalid_body"), 405))
                /\ UNCHANGED << rateMap, admitted >>
           ELSE /\ rateMap' = rl.map
                /\ admitted' = IF rl.ok THEN Admit(ip) ELSE admitted
                /\ IF ~rl.ok
                   THEN Respond(r, q1, json(Err("rate_limited", "rate_limited"), 429))
                   ELSE IF EnvMissing
                   THEN Respond(r, Op(q1, <<"env", "">>),
                                json(Err("Missing env", "env_missing"), 500))
                   ELSE IF body.t = "notjson"
                   THEN Respond(r, Op(Op(q1, <<"env", "">>), <<"body", "">>),
                                json(Err("Internal error", "internal_error"), 500))
                   ELSE IF ~ClerkTokenPresent(body)
                   THEN Respond(r, Op(Op(q1, <<"env", "">>), <<"body", "">>),
                                json(Err("Invalid body. Expected { clerkToken: string }",
                                         "invalid_body"), 400))
                   ELSE req' = [req EXCEPT ![r] =
                                  [Op(Op(q1, <<"env", "">>), <<"body", "">>) EXCEPT !.pc = "jwtVerify"]]

Receive(r, method, ip, body) ==
    /\ req[r].pc \in {"idle", "done"}
    /\ UNCHANGED << client, db, calls, bootRate, impl, env, now, sessionCache, users >>
    /\ LET q0 == [NoReq EXCEPT !.method = method, !.ip = ip, !.body = body]
           rl == checkRateLimit(ip)
           q1 == [Op(q0, <<"rate", "">>) EXCEPT !.limited = ~rl.ok]
       IN  IF method = "OPTIONS"
           THEN Respond(r, q0, json(Ok(PreflightSession), 200))
                /\ UNCHANGED << rateMap, admitted >>
           ELSE IF method # "POST"
           THEN Respond(r, q0, json(Err("Method not allowed", "invalid_body"), 405))
                /\ UNCHANGED << rateMap, admitted >>
           ELSE /\ rateMap' = rl.map
                /\ admitted' = IF rl.ok THEN Admit(ip) ELSE admitted
                /\ IF ~rl.ok
                   THEN Respond(r, q1, json(Err("rate_limited", "rate_limited"), 429))
                   ELSE IF EnvMissing
                   THEN Respond(r, Op(q1, <<"env", "">>),
                                json(Err("Missing env", "env_missing"), 500))
                   ELSE IF body.t = "notjson"
                   THEN Respond(r, Op(Op(q1, <<"env", "">>), <<"body", "">>),
                                json(Err("Internal error", "internal_error"), 500))
                   ELSE IF ~ClerkTokenPresent(body)
                   THEN Respond(r, Op(Op(q1, <<"env", "">>), <<"body", "">>),
                                json(Err("Invalid body. Expected { clerkToken: string }",
                                         "invalid_body"), 400))
                   ELSE req' = [req EXCEPT ![r] =
                                  [Op(Op(q1, <<"env", "">>), <<"body", "">>) EXCEPT !.pc = "jwtVerify"]]


(***************************************************************************)
(* JwtVerify: jose's jwtVerify resolves; the handler runs on to the        *)
(* session cache and the first call of ensureAuthUser                      *)
(***************************************************************************)
NowSeconds == now \div 1000      \* Math.floor(Date.now() / 1000)

WellFormed(token) == token.t = "jwt"

\* a verification that does not check the audience
jwtVerifyNoAudience(token, jwksOk) ==
    /\ WellFormed(token)
    /\ jwksOk
    /\ token.sigOk
    /\ token.payload.iss = env["CLERK_JWT_ISSUER"]
    /\ token.payload.exp > NowSeconds

\* jwtVerify(token, jwks, { issuer, audience }) resolves (does not throw)
jwtVerifyOk(token, jwksOk) ==
    /\ WellFormed(token)
    /\ jwksOk
    /\ token.sigOk
    /\ token.payload.iss = env["CLERK_JWT_ISSUER"]
    /\ token.payload.aud = env["CLERK_EXPECTED_AUDIENCE"]
    /\ token.payload.exp > NowSeconds

\* const email = emailFromJwt ?? `clerk+${clerkUserId}@example.invalid`
ensureAuthUserEmail(payload, clerkUserId) ==
    IF pickEmail(payload) # Undefined
    THEN pickEmail(payload)
    ELSE PlaceholderEmail(clerkUserId)

JwtVerify(r, jwksOk) ==
    /\ req[r].pc = "jwtVerify"
    /\ UNCHANGED << client, db, calls, bootRate, impl, env, now, rateMap, users, started, admitted >>
    /\ LET q == req[r]
           token == q.body
           qv == Op(IF WellFormed(token) THEN Op(q, <<"jwks", "">>) ELSE q, <<"verify", "">>)
       IN  IF ~jwtVerifyOk(token, jwksOk)
           THEN Respond(r, qv, json(Err("jwt_invalid", "jwt_invalid"), 401))
                /\ UNCHANGED sessionCache
           ELSE IF token.payload.iss # env["CLERK_JWT_ISSUER"]
           THEN Respond(r, qv, json(Err("Invalid issuer", "jwt_issuer_invalid"), 401))
                /\ UNCHANGED sessionCache
           ELSE IF ~isNonEmptyString(token.payload.sub)
           THEN Respond(r, qv, json(Err("Missing user_id", "jwt_invalid"), 401))
                /\ UNCHANGED sessionCache
           ELSE LET clerkUserId == token.payload.sub
                    supabaseUserId == uuidV5FromString(clerkUserId, NamespaceDns)
                    qm == [Op(qv, <<"map", "">>) EXCEPT
                             !.clerkUserId = clerkUserId,
                             !.supabaseUserId = supabaseUserId,
                             !.email = ensureAuthUserEmail(token.payload, clerkUserId)]
                    cached == getCachedSession(supabaseUserId)
                IN  IF impl = "session"
                    THEN /\ sessionCache' = cached.cache
                         /\ IF cached.hit
                            THEN Respond(r, Op(qm, <<"cache_get", "">>),
                                         json(Ok(cached.session), 200))
                            ELSE req' = [req EXCEPT ![r] =
                                    [Op(qm, <<"cache_get", "">>) EXCEPT !.pc = "getUserById"]]
                    ELSE /\ UNCHANGED sessionCache
                         /\ req' = [req EXCEPT ![r] = [qm EXCEPT !.pc = "getUserById"]]

(***************************************************************************)
(* ensureAuthUser: getUserById, createUser, re-check                       *)
(***************************************************************************)
UserById(id) == { u \in users : u.id = id }
UserByEmail(email) == { u \in users : u.email = email }

\* ensureAuthUser returned { email }: the handler
\* goes on to create the session (generateLink) or to mint (now is read
\* before the signing await)
Provisioned(r, q) ==
    IF impl = "session"
    THEN req' = [req EXCEPT ![r] = [q EXCEPT !.pc = "generateLink"]]
    ELSE req' = [req EXCEPT ![r] = [q EXCEPT !.pc = "sign", !.iat = NowSeconds]]

\* a lookup whose answer is never taken for a user
UserFoundNever(answer) == FALSE

\* what getUserById(id) answers: the user, "User not found" (an error of the
\* client library as well), or (`fault`) another error although the service
\* holds the user
getUserById(id, fault) ==
    IF UserById(id) = {} THEN "absent"
    ELSE IF fault THEN "error" ELSE "found"

\* if (!existing.error && existing.data?.user)
UserFound(answer) == answer = "found"

\* a lookup that takes a missing user for provisioned
GetUserByIdNoCreate(r, fault) ==
    /\ req[r].pc = "getUserById"
    /\ UNCHANGED << client, db, calls, bootRate, impl, env, now, rateMap, sessionCache, users, started, admitted >>
    /\ LET existing == getUserById(req[r].supabaseUserId, fault)
           q == Op(req[r], <<"lookup", existing>>)
       IN  Provisioned(r, q)

\* supabaseAdmin.auth.admin.getUserById(supabaseUserId) answers
GetUserById(r, fault) ==
    /\ req[r].pc = "getUserById"
    /\ UNCHANGED << client, db, calls, bootRate, impl, env, now, rateMap, sessionCache, users, started, admitted >>
    /\ LET existing == getUserById(req[r].supabaseUserId, fault)
           q == Op(req[r], <<"lookup", existing>>)
       IN  IF UserFound(existing)
           THEN Provisioned(r, q)
           ELSE req' = [req EXCEPT ![r] = [q EXCEPT !.pc = "createUser"]]

\* the record createUser inserts
NewUser(q) ==
    [id |-> q.supabaseUserId, email |-> q.email,
     user_metadata |-> [clerk_iss |-> q.body.payload.iss, clerk_user_id |-> q.clerkUserId],
     app_metadata |-> [provider |-> "clerk"]]

\* what createUser answers: the hosted user table rejects a second record
\* with the same id or the same e-mail; `fault` is any other error
createUser(q, fault) ==
    IF fault THEN "error"
    ELSE IF UserById(q.supabaseUserId) # {} THEN "id_exists"
    ELSE IF UserByEmail(q.email) # {} THEN "email_exists"
    ELSE "ok"

\* supabaseAdmin.auth.admin.createUser({ id, email, ... }) answers
CreateUser(r, fault) ==
    /\ req[r].pc = "createUser"
    /\ UNCHANGED << client, db, calls, bootRate, impl, env, now, rateMap, sessionCache, started, admitted >>
    /\ LET created == createUser(req[r], fault)
           q == Op(req[r], <<"create", created>>)
       IN  IF created # "ok"
           THEN /\ users' = users
                /\ req' = [req EXCEPT ![r] = [q EXCEPT !.pc = "recheck"]]
           ELSE /\ users' = users \cup {NewUser(q)}
                /\ Provisioned(r, q)

\* a re-check that gives up whatever the store answers
RecheckGivesUp(r, fault) ==
    /\ req[r].pc = "recheck"
    /\ UNCHANGED << client, db, calls, bootRate, impl, env, now, rateMap, sessionCache, users, started, admitted >>
    /\ LET recheck == getUserById(req[r].supabaseUserId, fault)
           q == Op(req[r], <<"recheck", recheck>>)
       IN  Respond(r, q, json(Err("Failed to create user", "user_create_failed"), 500))

\* a re-check that goes on whatever the store answers
RecheckGoesOn(r, fault) ==
    /\ req[r].pc = "recheck"
    /\ UNCHANGED << client, db, calls, bootRate, impl, env, now, rateMap, sessionCache, users, started, admitted >>
    /\ LET recheck == getUserById(req[r].supabaseUserId, fault)
           q == Op(req[r], <<"recheck", recheck>>)
       IN  Provisioned(r, q)

\* the re-check after a failed create: getUserById(supabaseUserId) answers
Recheck(r, fault) ==
    /\ req[r].pc = "recheck"
    /\ UNCHANGED << client, db, calls, bootRate, impl, env, now, rateMap, sessionCache, users, started, admitted >>
    /\ LET recheck == getUserById(req[r].supabaseUserId, fault)
           q == Op(req[r], <<"recheck", recheck>>)
       IN  IF UserFound(recheck)
           THEN Provisioned(r, q)
           ELSE Respond(r, q, json(Err("Failed to create user", "user_create_failed"), 500))


(***************************************************************************)
(* Session handler: generateLink, verifyOtp, cache                         *)
(***************************************************************************)
\* the id the hosted auth service gives a user it signs up itself
ServiceUserId(email) == <<"r",":">> \o email

\* a session of the hosted auth service for `user`
ServiceSession(user) ==
    [access_token |->
        [alg |-> "HS256", key |-> JwtSecret, sub |-> user.id,
         aud |-> "authenticated", role |-> "authenticated",
         email |-> user.email, iat |-> NowSeconds, exp |-> NowSeconds + 3600],
     refresh_token |-> "refresh"]

\* supabaseAdmin.auth.admin.generateLink({ type: 'magiclink', email }) answers:
\* the link belongs to the user holding that e-mail; for an unknown e-mail the
\* service signs a new user up
GenerateLink(r, fault) ==
    /\ req[r].pc = "generateLink"
    /\ UNCHANGED << client, db, calls, bootRate, impl, env, now, rateMap, sessionCache, started, admitted >>
    /\ LET q == Op(req[r], <<"link", "">>)
           owner == UserByEmail(q.email)
           signedUp == [id |-> ServiceUserId(q.email), email |-> q.email,
                        user_metadata |-> [clerk_iss |-> "", clerk_user_id |-> Undefined],
                        app_metadata |-> [provider |-> "email"]]
       IN  IF fault
           THEN /\ users' = users
                /\ Respond(r, q, json(Err("Failed to generate session",
                                          "session_create_failed"), 500))
           ELSE IF owner # {}
           THEN /\ users' = users
                /\ req' = [req EXCEPT ![r] =
                      [q EXCEPT !.pc = "verifyOtp",
                                !.tokenHash = (CHOOSE u \in owner : TRUE).id]]
           ELSE /\ users' = users \cup {signedUp}
                /\ req' = [req EXCEPT ![r] =
                      [q EXCEPT !.pc = "verifyOtp", !.tokenHash = signedUp.id]]

\* supabaseAdmin.auth.verifyOtp({ type: 'magiclink', token_hash }) answers;
\* the handler caches the session under supabaseUserId and returns it
VerifyOtp(r, fault) ==
    /\ req[r].pc = "verifyOtp"
    /\ UNCHANGED << client, db, calls, bootRate, impl, env, now, rateMap, users, started, admitted >>
    /\ LET q == Op(req[r], <<"otp", "">>)
           user == CHOOSE u \in users : u.id = q.tokenHash
           session == ServiceSession(user)
       IN  IF fault
           THEN /\ sessionCache' = sessionCache
                /\ Respond(r, q, json(Err("Failed to create session",
                                          "session_create_failed"), 500))
           ELSE /\ sessionCache' = setCachedSession(q.supabaseUserId, session)
                /\ Respond(r, Op(q, <<"cache_set", "">>), json(Ok(session), 200))

(***************************************************************************)
(* Mint handler: SignJWT                                                   *)
(***************************************************************************)
\* new SignJWT({ aud, email, role }).setProtectedHeader({ alg: 'HS256' })
\*   .setSubject(supabaseUserId).setIssuedAt(now).setExpirationTime(exp).sign(secret)
MintedToken(q) ==
    [alg |-> "HS256", key |-> env["SUPABASE_JWT_SECRET"], sub |-> q.supabaseUserId,
     aud |-> "authenticated", role |-> "authenticated",
     email |-> q.email, iat |-> q.iat, exp |-> q.iat + MINT_TTL_S]

SignJWT(r) ==
    /\ req[r].pc = "sign"
    /\ UNCHANGED << client, db, calls, bootRate, impl, env, now, rateMap, sessionCache, users, started, admitted >>
    /\ Respond(r, Op(req[r], <<"mint", "">>),
               json(Ok([access_token |-> MintedToken(req[r]),
                        refresh_token |-> "null"]), 200))

(***************************************************************************)
(* Time                                                                    *)
(***************************************************************************)
Tick(T) ==
    /\ \E t \in T : t > now /\ now' = t
    /\ UNCHANGED << client, db, calls, bootRate, impl, env, rateMap, sessionCache, users, req, started, admitted >>

(***************************************************************************)
(* The bootstrap endpoints (bootstrap-system, bootstrap-status) and the    *)
(* procedures they call                                                    *)
(***************************************************************************)
BootRequiredEnv ==
    << "SUPABASE_URL", "SUPABASE_SERVICE_ROLE_KEY",
       "CLERK_JWT_ISSUER", "CLERK_EXPECTED_AUDIENCE" >>

BootEnvMissing == \E i \in 1..Len(BootRequiredEnv) : env[BootRequiredEnv[i]] = ""

\* function checkRateLimit(ip) of a bootstrap endpoint, on its own rateMap
checkRateLimitOf(map, ip) ==
    IF ip \notin DOMAIN map \/ now > map[ip].resetAt
    THEN [ok |-> TRUE,
          map |-> (ip :> [count |-> 1, resetAt |-> now + RATE_LIMIT_WINDOW_MS])
                  @@ map]
    ELSE IF map[ip].count >= RATE_LIMIT_MAX
    THEN [ok |-> FALSE, map |-> map]
    ELSE [ok |-> TRUE, map |-> [map EXCEPT ![ip].count = @ + 1]]

\* endpoints that both call the installer
ProcedureOfInstaller(kind) == "bootstrap_install"

ProcedureOf(kind) ==
    IF kind = "bootstrap-system" THEN "bootstrap_install" ELSE "bootstrap_status"

\* the log of a call: the steps taken for it, in order
BootOp(q, step) == [q EXCEPT !.ops = Append(@, step)]

\* the call is over: the slot keeps what was asked, the log and the answer
BootRespond(c, q, resp) ==
    calls' = [calls EXCEPT ![c] =
                [NoCall EXCEPT !.pc = "done", !.kind = q.kind,
                               !.method = q.method, !.ip = q.ip,
                               !.body = q.body, !.proc = q.proc,
                               !.role = q.role, !.ops = q.ops,
                               !.resp = resp]]

BootErr(code, error) == [success |-> FALSE, code |-> code, error |-> error]

\* the handler of either endpoint up to the token verification
BootReceive(c, kind, method, ip, body) ==
    /\ calls[c].pc \in {"idle", "done"}
    /\ UNCHANGED << client, impl, env, now, rateMap, sessionCache, users, req,
                    admitted, db >>
    /\ LET q0 == [NoCall EXCEPT !.kind = kind, !.method = method, !.ip = ip,
                                !.body = body, !.proc = ProcedureOf(kind),
                                !.role = "service_role"]
           rl == checkRateLimitOf(bootRate[kind], ip)
           q1 == BootOp(q0, "rate")
           q2 == BootOp(q1, "env")
           q3 == BootOp(q2, "body")
       IN  IF method = "OPTIONS"
           THEN /\ BootRespond(c, q0,
                      json(IF kind = "bootstrap-system"
                           THEN [success |-> TRUE, already_initialized |-> TRUE]
                           ELSE [success |-> TRUE, status |-> "null"], 200))
                /\ UNCHANGED bootRate
           ELSE IF method # "POST"
           THEN /\ BootRespond(c, q0,
                      json(BootErr("invalid_body", "Method not allowed"), 405))
                /\ UNCHANGED bootRate
           ELSE /\ bootRate' = [bootRate EXCEPT ![kind] = rl.map]
                /\ IF ~rl.ok
                   THEN BootRespond(c, q1,
                           json(BootErr("rate_limited", "rate_limited"), 429))
                   ELSE IF BootEnvMissing
                   THEN BootRespond(c, q2,
                           json(BootErr("env_missing", "Missing env"), 500))
                   ELSE IF body.t = "notjson"
                   THEN BootRespond(c, q3,
                           json(BootErr("internal_error", "Internal error"), 500))
                   ELSE IF ~ClerkTokenPresent(body)
                   THEN BootRespond(c, q3,
                           json(BootErr("invalid_body",
                                        "Invalid body. Expected { clerkToken: string }"),
                                400))
                   ELSE calls' = [calls EXCEPT ![c] =
                                    [q3 EXCEPT !.pc = "jwtVerify"]]

\* where the handler goes once the token was verified
BootVerified(c, q) ==
    calls' = [calls EXCEPT ![c] =
                [q EXCEPT !.pc = IF q.kind = "bootstrap-system"
                                 THEN "tableExists" ELSE "rpc"]]

\* a handler that goes on whatever the verification said
BootJwtVerifyIgnored(c, jwksOk) ==
    /\ calls[c].pc = "jwtVerify"
    /\ UNCHANGED << client, impl, env, now, rateMap, sessionCache, users, req, started,
                    admitted, db, bootRate >>
    /\ BootVerified(c, BootOp(calls[c], "verify"))

\* await jwtVerify(body.clerkToken, jwks, { issuer, audience })
BootJwtVerify(c, jwksOk) ==
    /\ calls[c].pc = "jwtVerify"
    /\ UNCHANGED << client, impl, env, now, rateMap, sessionCache, users, req, started,
                    admitted, db, bootRate >>
    /\ LET q == BootOp(calls[c], "verify")
       IN  IF ~jwtVerifyOk(q.body, jwksOk)
           THEN BootRespond(c, q, json(BootErr("jwt_invalid", "jwt_invalid"), 401))
           ELSE BootVerified(c, q)

\* function tableExists(supabaseAdmin): the answer of the REST service is a
\* result, an error that says the relation is missing, or another error
TableExists(c, answer) ==
    /\ calls[c].pc = "tableExists"
    /\ answer = "ok" => Table("projects") \in db.objs
    /\ answer = "missing" => Table("projects") \notin db.objs
    /\ UNCHANGED << client, impl, env, now, rateMap, sessionCache, users, req, started,
                    admitted, db, bootRate >>
    /\ LET q == BootOp(calls[c], "tableExists")
       IN  CASE answer = "ok" ->
                  BootRespond(c, q,
                     json([success |-> TRUE, already_initialized |-> TRUE], 200))
             [] answer = "missing" ->
                  calls' = [calls EXCEPT ![c] = [q EXCEPT !.pc = "rpc"]]
             [] OTHER ->
                  BootRespond(c, q,
                     json(BootErr("bootstrap_failed", "TABLE_CHECK_FAILED"), 500))

\* a procedure is called directly through the REST service, with the key of
\* a role
RpcArrive(c, proc, role) ==
    /\ calls[c].pc \in {"idle", "done"}
    /\ UNCHANGED << client, impl, env, now, rateMap, sessionCache, users, req,
                    admitted, db, bootRate >>
    /\ calls' = [calls EXCEPT ![c] =
                   [NoCall EXCEPT !.pc = "rpc", !.kind = "rpc",
                                  !.proc = proc, !.role = role]]

\* the procedure call ended with an error: res.error of the endpoints, the
\* error answer of a direct call
RpcFailed(c, q, error) ==
    CASE q.kind = "bootstrap-system" ->
           BootRespond(c, q, json(BootErr("bootstrap_failed", error), 500))
      [] q.kind = "bootstrap-status" ->
           IF error = "not_found"
           THEN BootRespond(c, q,
                   json(BootErr("bootstrap_rpc_missing", "bootstrap_rpc_missing"),
                        500))
           ELSE BootRespond(c, q, json(BootErr("status_failed", error), 500))
      [] OTHER ->
           BootRespond(c, q, json(BootErr(error, error),
                                  IF error = "denied" THEN 403
                                  ELSE IF error = "not_found" THEN 404
                                  ELSE 500))

\* the procedure call returned data
RpcReturned(c, q, data) ==
    CASE q.kind = "bootstrap-status" ->
           BootRespond(c, q, json([success |-> TRUE, status |-> data], 200))
      [] OTHER -> BootRespond(c, q, json(data, 200))

\* supabaseAdmin.rpc(proc): the REST service does not find the procedure in
\* its schema cache or fails otherwise; else the database checks the EXECUTE
\* privilege of the role and runs the procedure
RpcCall(c, answer) ==
    /\ calls[c].pc = "rpc"
    /\ UNCHANGED << client, impl, env, now, rateMap, sessionCache, users, req, started,
                    admitted, db, bootRate >>
    /\ LET q == BootOp(calls[c], "rpc")
       IN  IF answer # "ok"
           THEN RpcFailed(c, q, answer)
           ELSE IF ~CanExecute(db.acl[q.proc], q.role)
           THEN RpcFailed(c, q, "denied")
           ELSE IF q.proc = "bootstrap_status"
           THEN RpcReturned(c, BootOp(q, "run"), bootstrap_status(db.objs))
           ELSE calls' = [calls EXCEPT ![c] =
                            [BootOp(q, "run") EXCEPT !.pc = "check", !.step = 1]]

\* what a running installer sees: what is committed and what it made itself
Visible(q) == db.objs \cup q.made

\* after the step: the next one, or the end of the function body
Advance(q) ==
    IF q.step = Len(InstallSteps)
    THEN [q EXCEPT !.pc = "return"]
    ELSE [q EXCEPT !.pc = "check", !.step = @ + 1]

\* the existence check of the current step
InstallCheck(c) ==
    /\ calls[c].pc = "check"
    /\ UNCHANGED << client, impl, env, now, rateMap, sessionCache, users, req, started,
                    admitted, db, bootRate >>
    /\ LET q == calls[c]
       IN  calls' = [calls EXCEPT ![c] =
                       IF Exists(Visible(q), InstallSteps[q.step])
                       THEN Advance(q)
                       ELSE [q EXCEPT !.pc = "create"]]

\* the creation of the current step, which waits while another transaction
\* holds the same new object uncommitted. The object may have been committed
\* since the check: setting the RLS flag again succeeds, create or replace
\* function replaces or fails (concurrently updated), every other create
\* raises "already exists", which ends the function and rolls it back
InstallCreate(c, replaced) ==
    /\ calls[c].pc = "create"
    /\ \A d \in CallSlots \ {c} : InstallSteps[calls[c].step] \notin calls[d].made
    /\ UNCHANGED << client, impl, env, now, rateMap, sessionCache, users, req, started,
                    admitted, db, bootRate >>
    /\ LET q == calls[c]
           o == InstallSteps[q.step]
       IN  IF o \notin db.objs
           THEN calls' = [calls EXCEPT ![c] =
                            Advance([q EXCEPT !.made = @ \cup {o},
                                              !.did_change = TRUE])]
           ELSE IF o.kind = "rls" \/ (o.kind = "function" /\ replaced)
           THEN calls' = [calls EXCEPT ![c] =
                            Advance([q EXCEPT !.did_change = TRUE])]
           ELSE RpcFailed(c, q, "already_exists")

\* the function returns and its transaction commits
InstallReturn(c) ==
    /\ calls[c].pc = "return"
    /\ UNCHANGED << client, impl, env, now, rateMap, sessionCache, users, req, started,
                    admitted, bootRate >>
    /\ db' = [db EXCEPT !.objs = @ \cup calls[c].made]
    /\ RpcReturned(c, calls[c],
          IF calls[c].did_change
          THEN [success |-> TRUE, bootstrapped |-> TRUE]
          ELSE [success |-> TRUE, already_initialized |-> TRUE])

\* a procedure called while no other call is in flight, run to its end
Rpc(c, proc, role) ==
    /\ \A d \in CallSlots : calls[d].pc \in {"idle", "done"}
    /\ UNCHANGED << client, impl, env, now, rateMap, sessionCache, users, req,
                    admitted, bootRate >>
    /\ LET q == BootOp(BootOp([NoCall EXCEPT !.kind = "rpc", !.proc = proc,
                                             !.role = role], "rpc"), "run")
       IN  IF ~CanExecute(db.acl[proc], role)
           THEN /\ RpcFailed(c, BootOp([NoCall EXCEPT !.kind = "rpc", !.proc = proc,
                                             !.role = role], "rpc"), "denied")
                /\ UNCHANGED db
           ELSE IF proc = "bootstrap_status"
           THEN /\ RpcReturned(c, q, bootstrap_status(db.objs))
                /\ UNCHANGED db
           ELSE /\ db' = [db EXCEPT
                           !.objs = bootstrap_install(db.objs, db.rows).objs,
                           !.rows = bootstrap_install(db.objs, db.rows).rows]
                /\ RpcReturned(c, q, bootstrap_install(db.objs, db.rows).data)

(***************************************************************************)
(* Specifications                                                          *)
(*                                                                         *)
(* Spec     : federations of verified callers in a configured deployment,  *)
(*            NumSlots requests in flight, every service call may fail;    *)
(*            the clock stands still (no cache entry expires)              *)
(* SpecGate : one request at a time, every method, body and environment,   *)
(*            with the clock                                               *)
(* SpecRate : callers from two addresses hammering the rate limiter, with  *)
(*            the clock                                                    *)
(***************************************************************************)
MaxRequests == 2       \* requests received in a run of Spec
MaxGateRequests == 1   \* requests received in a run of SpecGate

Bodies == ValidTokens \cup InvalidTokens \cup
          {TokExpiring, BodyNotJson, BodyNoToken, BodyBlankToken}

\* a new request takes the first slot never used, and reuses a finished one
\* only when none is left
FreeSlot(S, r) ==
    IF \E i \in S : req[i].pc = "idle"
    THEN req[r].pc = "idle" /\ \A i \in S : i < r => req[i].pc # "idle"
    ELSE req[r].pc = "done"

Arrive(S, r, method, ip, body, budget) ==
    /\ started < budget
    /\ FreeSlot(S, r)
    /\ started' = started + 1
    /\ Receive(r, method, ip, body)

Steps(S) ==
    \/ \E r \in S, k \in BOOLEAN : JwtVerify(r, k)
    \/ \E r \in S, f \in BOOLEAN : GetUserById(r, f)
    \/ \E r \in S, f \in BOOLEAN : CreateUser(r, f)
    \/ \E r \in S, f \in BOOLEAN : Recheck(r, f)
    \/ \E r \in S, f \in BOOLEAN : GenerateLink(r, f)
    \/ \E r \in S, f \in BOOLEAN : VerifyOtp(r, f)
    \/ \E r \in S : SignJWT(r)

\* a deployment with every name of the environment set
InitConfigured == Init /\ env = FullEnv

Next ==
    \/ \E r \in Slots, b \in {TokA1, TokB1, TokA2} :
          Arrive(Slots, r, "POST", "10.0.0.1", b, MaxRequests)
    \/ Steps(Slots)

Spec == InitConfigured /\ [][Next]_vars

NextGate ==
    \/ Tick(Instants)
    \/ \E m \in Methods, b \in Bodies : Arrive({1}, 1, m, "10.0.0.1", b, MaxGateRequests)
    \/ Steps({1})

SpecGate == Init /\ [][NextGate]_vars

\* the limiter after RATE_LIMIT_MAX admitted requests of one address at
\* instant 0 (a state SpecRate reaches), every other part as in Init
InitSaturated ==
    /\ impl \in Impls
    /\ env \in EnvConfigs
    /\ now = 0
    /\ rateMap = ("10.0.0.1" :> [count |-> RATE_LIMIT_MAX,
                                 resetAt |-> RATE_LIMIT_WINDOW_MS])
    /\ sessionCache = << >>
    /\ users = {}
    /\ req = [r \in Slots |-> NoReq]
    /\ started = 0
    /\ admitted = ("10.0.0.1" :> [first |-> 0, n |-> RATE_LIMIT_MAX])
    /\ BootIdle
    /\ client = NoClient

\* one request at a time as in SpecGate, before or after the limit is reached
SpecCodes == (Init \/ InitSaturated) /\ [][NextGate]_vars

\* the rate limiter under load: requests that end at the body check or at the
\* verification, from two addresses, without a bound on their number
ArriveUnbounded(r, method, ip, body) ==
    /\ started' = started
    /\ Receive(r, method, ip, body)

NextRate ==
    \/ Tick(Instants)
    \/ \E m \in {"POST", "OPTIONS"}, ip \in Ips, b \in {BodyNoToken, TokBadSig} :
          ArriveUnbounded(1, m, ip, b)
    \/ \E k \in BOOLEAN : JwtVerify(1, k)

SpecRate == InitConfigured /\ [][NextRate]_vars


MaxRpcCalls == 2       \* procedure calls in a run of SpecInstall
MaxBootCalls == 2      \* requests and calls received in a run of SpecBoot
MaxRaceCalls == 2      \* requests and calls received in a run of SpecRace

\* the federation endpoint at rest in a configured deployment
FederationIdle ==
    /\ impl = "session"
    /\ env = FullEnv
    /\ now = 0
    /\ rateMap = << >>
    /\ sessionCache = << >>
    /\ users = {}
    /\ req = [r \in Slots |-> NoReq]
    /\ started = 0
    /\ admitted = << >>
    /\ client = NoClient

\* every schema state: any consistent subset of the objects, with any rows
SchemaStates ==
    { sc \in [objs : SUBSET Objects, rows : SUBSET Rows] :
         Consistent(sc.objs, sc.rows) }

InitInstall ==
    /\ FederationIdle
    /\ db \in { Database(sc.objs, sc.rows, {"PUBLIC"}) : sc \in SchemaStates }
    /\ calls = [c \in CallSlots |-> NoCall]
    /\ bootRate = [e \in BootEndpoints |-> << >>]

\* the service role calls the procedures one after the other
NextInstall ==
    \E proc \in Procedures :
        /\ started < MaxRpcCalls
        /\ started' = started + 1
        /\ Rpc(1, proc, "service_role")

SpecInstall == InitInstall /\ [][NextInstall]_vars

\* schemas the endpoints are tried on: empty, half installed, installed
BootSchemas ==
    { {}, {set_updated_at, Table("profiles"), Table("projects")},
      InstallObjects \ {Policy("profiles", "update")}, InstallObjects }

\* the endpoint limiter after RATE_LIMIT_MAX admitted requests of the address
BootSaturated ==
    [e \in BootEndpoints |->
        ("10.0.0.1" :> [count |-> RATE_LIMIT_MAX,
                        resetAt |-> RATE_LIMIT_WINDOW_MS])]

InitBoot ==
    /\ FederationIdle
    /\ db \in { Database(objs, {}, g) : objs \in BootSchemas,
                                        g \in DefaultGrantees }
    /\ calls = [c \in CallSlots |-> NoCall]
    /\ bootRate \in { [e \in BootEndpoints |-> << >>], BootSaturated }

BootBodies ==
    { TokA1, TokExpiring, TokBadSig, TokBadAud, TokMalformed, BodyNoToken,
      BodyNotJson }

\* a new call takes the first slot never used, and reuses a finished one
\* only when none is left
BootFreeSlot(S, c) ==
    IF \E i \in S : calls[i].pc = "idle"
    THEN calls[c].pc = "idle" /\ \A i \in S : i < c => calls[i].pc # "idle"
    ELSE calls[c].pc = "done"

BootArrive(S, c, kind, method, body, budget) ==
    /\ started < budget
    /\ BootFreeSlot(S, c)
    /\ started' = started + 1
    /\ BootReceive(c, kind, method, "10.0.0.1", body)

RpcArriveOf(S, c, proc, role, budget) ==
    /\ started < budget
    /\ BootFreeSlot(S, c)
    /\ started' = started + 1
    /\ RpcArrive(c, proc, role)

BootSteps(S) ==
    \/ \E c \in S, k \in BOOLEAN : BootJwtVerify(c, k)
    \/ \E c \in S, a \in {"ok", "missing", "error"} : TableExists(c, a)
    \/ \E c \in S, a \in {"ok", "not_found", "error"} : RpcCall(c, a)
    \/ \E c \in S : InstallCheck(c)
    \/ \E c \in S, replaced \in BOOLEAN : InstallCreate(c, replaced)
    \/ \E c \in S : InstallReturn(c)

\* one request or call at a time: every endpoint, method, body and role;
\* the clock goes to the instant after the window of the limiter ended
\* (TokExpiring has expired by then)
NextBoot ==
    \/ Tick({RATE_LIMIT_WINDOW_MS + 1})
    \/ \E e \in BootEndpoints, m \in Methods, b \in BootBodies :
          BootArrive({1}, 1, e, m, b, MaxBootCalls)
    \/ \E p \in Procedures, role \in Roles :
          RpcArriveOf({1}, 1, p, role, MaxBootCalls)
    \/ BootSteps({1})

SpecBoot == InitBoot /\ [][NextBoot]_vars

\* concurrent installs start from the empty schema, from the function
\* alone, or from a schema that lacks its last policy
InitRace ==
    /\ FederationIdle
    /\ db \in { Database(objs, {}, {"PUBLIC"}) :
                   objs \in { {}, {set_updated_at},
                              InstallObjects \ {Policy("profiles", "update")} } }
    /\ calls = [c \in CallSlots |-> NoCall]
    /\ bootRate = [e \in BootEndpoints |-> << >>]

\* verified callers of the two endpoints and the service role calling the
\* installer, NumCalls of them in flight
NextRace ==
    \/ \E c \in CallSlots, e \in BootEndpoints :
          BootArrive(CallSlots, c, e, "POST", TokA1, MaxRaceCalls)
    \/ \E c \in CallSlots :
          RpcArriveOf(CallSlots, c, "bootstrap_install", "service_role",
                      MaxRaceCalls)
    \/ BootSteps(CallSlots)

SpecRace == InitRace /\ [][NextRace]_vars


(***************************************************************************)
(* Vocabulary of the properties                                            *)
(***************************************************************************)
Has(ops, step) == \E i \in 1..Len(ops) : ops[i][1] = step
Answered(ops, step, answer) == \E i \in 1..Len(ops) : ops[i] = << step, answer >>
Count(ops, step) == Cardinality({ i \in 1..Len(ops) : ops[i][1] = step })

Done(r) == req[r].pc = "done"
Succeeded(r) == Done(r) /\ req[r].method = "POST" /\ req[r].resp.status = 200
Failed(r, status, code) ==
    /\ Done(r)
    /\ req[r].resp.status = status
    /\ req[r].resp.body.success = FALSE
    /\ req[r].resp.body.code = code

\* the Supabase user id the specification assigns to an external subject
MappedId(sub) == uuidV5FromString(sub, NamespaceDns)

Blank(s) == \A i \in 1..Len(s) : s[i] \in Whitespace

\* the request body carries a token to verify
CarriesToken(body) ==
    \/ body.t = "jwt"
    \/ body.t = "str" /\ ~Blank(body.s)

\* the token of the body cannot pass verification, whatever the key set
FailsVerification(body) ==
    \/ body.t # "jwt"
    \/ ~body.sigOk
    \/ body.payload.iss # Issuer
    \/ body.payload.aud # Audience
    \/ body.payload.sub = Undefined
    \/ Blank(body.payload.sub)

UserSteps == {"lookup", "create", "recheck"}
SessionSteps == {"link", "otp", "mint", "cache_set"}

(***************************************************************************)
(* C1. A POST whose token fails verification (bad signature, malformed,    *)
(* issuer or audience mismatch, subject absent, empty or blank) is         *)
(* answered 401 with success = false and a jwt_invalid-class code, and the *)
(* handler does no user lookup, no user creation, no minting, no session   *)
(* creation and no cache write for it.                                     *)
(***************************************************************************)
JwtInvalidCodes == {"jwt_invalid", "jwt_issuer_invalid", "jwt_audience_invalid"}

C1_Case(r) ==
    /\ req[r].pc # "idle"
    /\ req[r].method = "POST"
    /\ ~req[r].limited
    /\ \A n \in EnvNames : env[n] = FullEnv[n]
    /\ CarriesToken(req[r].body)
    /\ FailsVerification(req[r].body)

C1_Outcome ==
    \A r \in Slots : C1_Case(r) =>
        /\ req[r].pc \in {"jwtVerify", "done"}
        /\ \A s \in UserSteps \cup SessionSteps : ~Has(req[r].ops, s)
        /\ Done(r) => /\ req[r].resp.status = 401
                      /\ req[r].resp.body.success = FALSE
                      /\ req[r].resp.body.code \in JwtInvalidCodes

\* a step of such a request leaves the users and the session cache alone
C1_NoEffect ==
    \A r \in Slots : (req'[r] # req[r] /\ C1_Case(r)') =>
        /\ users' = users
        /\ sessionCache' = sessionCache

\* C1: a POST whose token fails verification ends with 401 and a
\* jwt_invalid-class code, and nothing is looked up, created, minted or cached
C1_UnverifiedRejected == []C1_Outcome /\ [][C1_NoEffect]_vars

C1_Witness ==
    \E r \in Slots : C1_Case(r) /\ req[r].body = TokBadAud /\ Failed(r, 401, "jwt_invalid")

(***************************************************************************)
(* C2. A token is minted (a session created) only after the caller's token *)
(* was verified, and a success response for the mapped id is returned only *)
(* after ensureAuthUser completed: in that request, or, when the response  *)
(* is served from the session cache, in the request that filled the cache. *)
(***************************************************************************)
ProvisionAnswers ==
    { <<"lookup", "found">>, <<"create", "ok">>, <<"recheck", "found">> }

\* ensureAuthUser completed successfully in the request with this log
ProvisionedHere(ops) == \E i \in 1..Len(ops) : ops[i] \in ProvisionAnswers

\* every step of B is preceded in the log by an entry of A
Precedes(ops, A, B) ==
    \A i \in 1..Len(ops) :
        ops[i][1] \in B => \E j \in 1..(i - 1) : ops[j] \in A

ServedFromCache(r) ==
    /\ Succeeded(r)
    /\ req[r].ops[Len(req[r].ops)] = <<"cache_get", "">>

C2_VerifiedFirst(r) ==
    /\ Precedes(req[r].ops, {<<"verify", "">>}, UserSteps \cup SessionSteps)
    /\ (Succeeded(r) \/ \E s \in SessionSteps : Has(req[r].ops, s)) =>
          /\ Has(req[r].ops, "verify")
          /\ ~FailsVerification(req[r].body)

\* C2 as stated: sessions are created only after verification, and every
\* success response follows ensureAuthUser in that same request
C2_ProvisionedInRequest ==
    \A r \in Slots :
        /\ C2_VerifiedFirst(r)
        /\ Precedes(req[r].ops, ProvisionAnswers, SessionSteps)
        /\ Succeeded(r) => ProvisionedHere(req[r].ops)

\* C2: sessions are created only after verification, and every success
\* response follows ensureAuthUser in that request or, for a cached session,
\* in the request that cached it; the user record exists at every success
C2_ProvisionedBeforeToken ==
    /\ \A r \in Slots :
        /\ C2_VerifiedFirst(r)
        /\ Precedes(req[r].ops, ProvisionAnswers, SessionSteps)
        /\ Succeeded(r) =>
              /\ ProvisionedHere(req[r].ops) \/ ServedFromCache(r)
              /\ UserById(MappedId(req[r].body.payload.sub)) # {}
    /\ \A id \in DOMAIN sessionCache : UserById(id) # {}

C2_Witness ==
    \E r \in Slots : ServedFromCache(r) /\ ~ProvisionedHere(req[r].ops)

(***************************************************************************)
(* C3. Every successful federation of a verified token with subject s      *)
(* returns an access token with sub = map(s), aud = role =                 *)
(* "authenticated", signed with HS256 under the project's secret, and      *)
(* exp = iat + 3600.                                                       *)
(***************************************************************************)
AccessToken(r) == req[r].resp.body.session.access_token

C3_TokenClaims ==
    \A r \in Slots : Succeeded(r) =>
        /\ AccessToken(r).sub = MappedId(req[r].body.payload.sub)
        /\ AccessToken(r).aud = "authenticated"
        /\ AccessToken(r).role = "authenticated"
        /\ AccessToken(r).alg = "HS256"
        /\ AccessToken(r).key = JwtSecret
        /\ AccessToken(r).exp = AccessToken(r).iat + 3600

(***************************************************************************)
(* C4. Over successful federations of one external subject, the first      *)
(* provisions the user and every returned token, fresh or cached, carries  *)
(* the same subject claim.                                                 *)
(***************************************************************************)
C4_SameSubject ==
    \A r1, r2 \in Slots :
        ( /\ Succeeded(r1)
          /\ Succeeded(r2)
          /\ req[r1].body.payload.sub = req[r2].body.payload.sub ) =>
            /\ AccessToken(r1).sub = AccessToken(r2).sub
            /\ UserById(MappedId(req[r1].body.payload.sub)) # {}

(***************************************************************************)
(* C5. From one caller address at most RATE_LIMIT_MAX POST requests are    *)
(* admitted within one 60-second window, the window starting at the first  *)
(* admitted request; every further request of the window is answered 429   *)
(* with code rate_limited.                                                 *)
(***************************************************************************)
C5_WindowBound ==
    /\ \A ip \in DOMAIN admitted : admitted[ip].n <= RATE_LIMIT_MAX
    /\ \A r \in Slots :
          (req[r].pc # "idle" /\ req[r].limited) => Failed(r, 429, "rate_limited")

\* a refused POST leaves the window's count of admissions alone, and a POST
\* arriving within a full window is refused
C5_Refusal ==
    \A r \in Slots, ip \in Ips :
        ( /\ req'[r] # req[r]
          /\ req'[r].ops # << >>
          /\ req'[r].ops[Len(req'[r].ops)] = <<"rate", "">>
          /\ req'[r].ip = ip ) =>
            IF /\ ip \in DOMAIN admitted
               /\ admitted[ip].n = RATE_LIMIT_MAX
               /\ now - admitted[ip].first < RATE_LIMIT_WINDOW_MS
            THEN req'[r].limited /\ admitted' = admitted
            ELSE req'[r].limited => admitted' = admitted

\* C5: at most RATE_LIMIT_MAX admissions per address and window, the rest 429
C5_RateLimited == []C5_WindowBound /\ [][C5_Refusal]_vars

C5_Witness ==
    \E r \in Slots :
        /\ Failed(r, 429, "rate_limited")
        /\ req[r].ip \in DOMAIN admitted
        /\ admitted[req[r].ip].n = RATE_LIMIT_MAX

(***************************************************************************)
(* C6. A request answered 429 was rejected before any verification work:   *)
(* no key-set fetch, no token verification, no user lookup or creation, no *)
(* session-cache access and no token minting happened for it.              *)
(***************************************************************************)
C6_RejectedFirst ==
    \A r \in Slots :
        (Done(r) /\ req[r].resp.status = 429) =>
            /\ req[r].ops = << <<"rate", "">> >>
            /\ req[r].limited

\* the step that answers 429 touches neither the users nor the session cache
C6_NoWork ==
    \A r \in Slots :
        (req'[r] # req[r] /\ req'[r].pc = "done" /\ req'[r].resp.status = 429) =>
            /\ users' = users
            /\ sessionCache' = sessionCache

\* C6: a request answered 429 did nothing but consult the limiter
C6_LimitBeforeVerify == []C6_RejectedFirst /\ [][C6_NoWork]_vars

C6_Witness ==
    \E r \in Slots :
        /\ Done(r)
        /\ req[r].resp.status = 429
        /\ req[r].body = TokBadSig

(***************************************************************************)
(* C7. The user store holds at most one record with id map(s); the record  *)
(* is created by the first successful federation when absent, and a        *)
(* federation that finds the record by id performs no create and no update *)
(* on it.                                                                  *)
(***************************************************************************)
InEnsureAuthUser == {"getUserById", "createUser", "recheck"}

C7_OneRecord ==
    /\ \A u \in users : Cardinality(UserById(u.id)) = 1
    /\ \A r \in Slots :
          /\ Succeeded(r) => Cardinality(UserById(MappedId(req[r].body.payload.sub))) = 1
          /\ Answered(req[r].ops, "lookup", "found") =>
                /\ ~Has(req[r].ops, "create")
                /\ req[r].pc \notin InEnsureAuthUser

\* no record is ever updated or removed; the lookup that the store answers
\* with the record ends ensureAuthUser without a write; a create that
\* succeeds adds exactly the record with the mapped id
C7_Idempotent ==
    /\ users \subseteq users'
    /\ \A r \in Slots :
          /\ ( /\ req[r].pc = "getUserById"
               /\ req'[r].pc = "createUser"
               /\ UserById(req[r].supabaseUserId) # {} ) =>
                    Answered(req'[r].ops, "lookup", "error") /\ users' = users
          /\ ( /\ req[r].pc = "getUserById"
               /\ Answered(req'[r].ops, "lookup", "found") ) =>
                    users' = users /\ UserById(req[r].supabaseUserId) # {}
          /\ ( /\ req[r].pc = "createUser"
               /\ req'[r].pc # "createUser"
               /\ users' # users ) =>
                    /\ UserById(req[r].supabaseUserId) = {}
                    /\ users' \ users = { u \in users' : u.id = req[r].supabaseUserId }
                    /\ req[r].supabaseUserId = MappedId(req[r].body.payload.sub)

\* C7: one record per mapped id, created when absent, untouched when found
C7_SingleRecord == []C7_OneRecord /\ [][C7_Idempotent]_vars

C7_Witness ==
    \E r \in Slots :
        /\ Succeeded(r)
        /\ Answered(req[r].ops, "lookup", "found")
        /\ Cardinality(UserById(MappedId(req[r].body.payload.sub))) = 1

(***************************************************************************)
(* C8. When two requests for one external subject run concurrently and     *)
(* both find the user absent, the one whose create conflicts re-queries by *)
(* id and treats the user as found: both complete provisioning and exactly *)
(* one user record exists.                                                 *)
(***************************************************************************)
\* r1 created the record while r2, after the same miss, ran into the conflict
RacedOn(r1, r2) ==
    /\ r1 # r2
    /\ Answered(req[r1].ops, "lookup", "absent")
    /\ Answered(req[r1].ops, "create", "ok")
    /\ Answered(req[r2].ops, "lookup", "absent")
    /\ Answered(req[r2].ops, "create", "id_exists")
    /\ req[r1].body.payload.sub = req[r2].body.payload.sub

PastEnsureAuthUser(r) ==
    \/ req[r].pc \in {"generateLink", "verifyOtp", "sign"}
    \/ Done(r) /\ \E s \in SessionSteps : Has(req[r].ops, s)

C8_BothProvisioned ==
    \A r1, r2 \in Slots :
        (RacedOn(r1, r2) /\ Has(req[r2].ops, "recheck")) =>
            /\ Cardinality(UserById(MappedId(req[r1].body.payload.sub))) = 1
            /\ PastEnsureAuthUser(r1)
            /\ \/ PastEnsureAuthUser(r2) /\ Answered(req[r2].ops, "recheck", "found")
               \/ Failed(r2, 500, "user_create_failed")
                  /\ Answered(req[r2].ops, "recheck", "error")

\* the re-query that the store answers with the record is treated as found
C8_RecheckFound ==
    \A r \in Slots :
        ( /\ req[r].pc = "recheck"
          /\ req'[r].pc # "recheck"
          /\ Answered(req[r].ops, "create", "id_exists") ) =>
            /\ UserById(req[r].supabaseUserId) # {}
            /\ users' = users
            /\ \/ PastEnsureAuthUser(r)'
               \/ Answered(req'[r].ops, "recheck", "error")

\* C8: the loser of a create race re-queries, finds the record and goes on
C8_CreateRace == []C8_BothProvisioned /\ [][C8_RecheckFound]_vars

C8_Witness ==
    \E r1, r2 \in Slots :
        /\ RacedOn(r1, r2)
        /\ Answered(req[r2].ops, "recheck", "found")
        /\ PastEnsureAuthUser(r1)
        /\ PastEnsureAuthUser(r2)
        /\ Cardinality(UserById(MappedId(req[r1].body.payload.sub))) = 1

(***************************************************************************)
(* C9. When the lookup by internal id finds an existing user record,       *)
(* ensureAuthUser returns that record's e-mail unchanged, whatever e-mail  *)
(* claims the current token carries.                                       *)
(***************************************************************************)
C9_RecordEmail ==
    \A r \in Slots :
        ( /\ req[r].pc \in {"generateLink", "sign"}
          /\ Answered(req[r].ops, "lookup", "found") ) =>
            \A u \in UserById(req[r].supabaseUserId) : req[r].email = u.email

(***************************************************************************)
(* C10. If the user is absent, the create fails and the re-check by id     *)
(* finds no user either, the request ends with 500 user_create_failed: the *)
(* create was attempted exactly once, and no session is created, cached or *)
(* returned.                                                               *)
(***************************************************************************)
C10_Case(r) ==
    /\ Answered(req[r].ops, "lookup", "absent")
    /\ \E a \in {"error", "email_exists"} : Answered(req[r].ops, "create", a)
    /\ Answered(req[r].ops, "recheck", "absent")

C10_Outcome ==
    \A r \in Slots : C10_Case(r) =>
        /\ Failed(r, 500, "user_create_failed")
        /\ Count(req[r].ops, "create") = 1
        /\ Count(req[r].ops, "recheck") = 1
        /\ \A s \in SessionSteps : ~Has(req[r].ops, s)
        /\ "session" \notin DOMAIN req[r].resp.body

\* the step that ends such a request writes neither users nor sessions
C10_NoSession ==
    \A r \in Slots :
        (req'[r] # req[r] /\ C10_Case(r)') =>
            /\ users' = users
            /\ sessionCache' = sessionCache

\* C10: lookup absent, create failed, re-check absent: 500 user_create_failed
\* after exactly one create and without any session
C10_CreateFailed == []C10_Outcome /\ [][C10_NoSession]_vars

C10_Witness ==
    \E r \in Slots :
        /\ C10_Case(r)
        /\ Failed(r, 500, "user_create_failed")
        /\ UserById(MappedId(req[r].body.payload.sub)) = {}

(***************************************************************************)
(* C11. The session cache is keyed on the mapped id and never shared       *)
(* across external subjects: a session served from the cache to a request  *)
(* with verified subject s was stored by a request with subject s.         *)
(***************************************************************************)
Subject(r) == req[r].body.payload.sub

CachedUnder(cache, id, session) ==
    /\ id \in DOMAIN cache
    /\ cache[id].access_token = session.access_token
    /\ cache[id].refresh_token = session.refresh_token

\* keys are mapped ids, and the ids of distinct subjects differ
C11_Keys ==
    /\ MappedId(U1) # MappedId(U2)
    /\ DOMAIN sessionCache \subseteq { MappedId(U1), MappedId(U2) }

\* a request is served the entry under its own mapped id, a request stores
\* its session under its own mapped id only, and no other step changes what
\* a key holds (an expired entry may be dropped)
C11_OwnKey ==
    /\ \A r \in Slots :
        /\ (req[r].pc = "jwtVerify" /\ ServedFromCache(r)') =>
              CachedUnder(sessionCache, MappedId(Subject(r)), req'[r].resp.body.session)
        /\ (req[r].pc = "verifyOtp" /\ req'[r] # req[r] /\ sessionCache' # sessionCache) =>
              /\ Succeeded(r)'
              /\ CachedUnder(sessionCache', MappedId(Subject(r)), req'[r].resp.body.session)
              /\ \A k \in DOMAIN sessionCache' \ {MappedId(Subject(r))} :
                    k \in DOMAIN sessionCache /\ sessionCache'[k] = sessionCache[k]
    /\ (\A r \in Slots : req[r].pc = "verifyOtp" => req'[r] = req[r]) =>
          \A k \in DOMAIN sessionCache' :
              k \in DOMAIN sessionCache /\ sessionCache'[k] = sessionCache[k]

\* C11: cache entries are stored and served under the caller's own mapped id
C11_CacheNotShared == []C11_Keys /\ [][C11_OwnKey]_vars

C11_Witness ==
    \E r1, r2 \in Slots :
        /\ r1 # r2
        /\ ServedFromCache(r1)
        /\ Has(req[r2].ops, "cache_set")
        /\ Subject(r1) = Subject(r2)
        /\ req[r1].resp.body.session = req[r2].resp.body.session

(***************************************************************************)
(* C12. Every failure response has the HTTP status that matches its code:  *)
(* invalid_body 400; jwt_invalid, jwt_issuer_invalid, jwt_audience_invalid *)
(* 401; rate_limited 429; env_missing, user_create_failed,                 *)
(* session_create_failed, internal_error 500.                              *)
(***************************************************************************)
StatusOf(code) ==
    CASE code = "invalid_body" -> 400
      [] code \in JwtInvalidCodes -> 401
      [] code = "rate_limited" -> 429
      [] code \in {"env_missing", "user_create_failed",
                   "session_create_failed", "internal_error"} -> 500
      [] OTHER -> 0

FailureResponse(r) == Done(r) /\ req[r].resp.body.success = FALSE

\* C12 as stated: the status of every failure response matches its code
C12_StatusMatchesCode ==
    \A r \in Slots :
        FailureResponse(r) => req[r].resp.status = StatusOf(req[r].resp.body.code)

\* C12: the status of every failure response to a POST matches its code; any
\* other method but OPTIONS is answered 405 with code invalid_body
C12_StatusMatchesCodeOfPost ==
    \A r \in Slots :
        FailureResponse(r) =>
            IF req[r].method = "POST"
            THEN req[r].resp.status = StatusOf(req[r].resp.body.code)
            ELSE /\ req[r].method # "OPTIONS"
                 /\ req[r].resp.status = 405
                 /\ req[r].resp.body.code = "invalid_body"

C12_Witness ==
    \E r \in Slots :
        /\ req[r].method = "GET"
        /\ Failed(r, 405, "invalid_body")

(***************************************************************************)
(* C13. Every success response to a federation POST carries a non-empty    *)
(* access_token and refresh_token = null.                                  *)
(***************************************************************************)
C13_NoRefreshToken ==
    \A r \in Slots : Succeeded(r) =>
        /\ req[r].resp.body.session.access_token # NoToken
        /\ req[r].resp.body.session.refresh_token = "null"

(***************************************************************************)
(* The bootstrap endpoints, the installer and the readiness report         *)
(***************************************************************************)
BootHas(ops, step) == \E i \in 1..Len(ops) : ops[i] = step

EndpointCall(c) == calls[c].kind \in BootEndpoints

\* the call reads or writes the database with the service role key
TouchesDatabase(c) ==
    \/ calls[c].pc \in {"tableExists", "rpc", "check", "create", "return"}
    \/ BootHas(calls[c].ops, "tableExists")
    \/ BootHas(calls[c].ops, "rpc")
    \/ calls[c].made # {}

\* the token of the body cannot pass the verification of the bootstrap
\* endpoints at any time, whatever the key set
Unverifiable(body) ==
    \/ body.t # "jwt"
    \/ ~body.sigOk
    \/ body.payload.iss # Issuer
    \/ body.payload.aud # Audience

\* every database access of an endpoint request comes after its verification
C14_Inv ==
    \A c \in CallSlots :
        EndpointCall(c) /\ TouchesDatabase(c)
        => /\ calls[c].method = "POST"
           /\ ~Unverifiable(calls[c].body)
           /\ \A i \in 1..Len(calls[c].ops) :
                 calls[c].ops[i] \in {"tableExists", "rpc"}
                 => \E j \in 1..(i - 1) : calls[c].ops[j] = "verify"

\* a request enters the database steps only from a verification that the
\* token passes at that instant; a failed verification ends the request
\* with 401 and leaves the database alone
C14_Step ==
    \A c \in CallSlots :
        /\ ( /\ calls'[c].kind \in BootEndpoints
             /\ calls'[c].pc \in {"tableExists", "rpc"}
             /\ calls'[c] # calls[c] )
           => \/ calls[c].pc = "jwtVerify" /\ jwtVerifyOk(calls[c].body, TRUE)
              \/ calls[c].pc = "tableExists" /\ calls'[c].pc = "rpc"
        /\ ( /\ calls[c].pc = "jwtVerify"
             /\ calls'[c] # calls[c]
             /\ ~jwtVerifyOk(calls[c].body, TRUE) )
           => /\ calls'[c].pc = "done"
              /\ calls'[c].resp.status = 401
              /\ calls'[c].resp.body.code = "jwt_invalid"
              /\ db' = db

\* C14: the bootstrap endpoint and the status endpoint read the database and
\* call their procedure only for a POST whose token has just been verified
\* successfully; a request with a missing, malformed or unverifiable token
\* never reaches the table check, the installer or the status procedure
C14_VerifiedBeforeInstall == []C14_Inv /\ [][C14_Step]_vars

\* the bootstrap endpoint has verified a token with a bad signature and has
\* turned the request away before any database access
C14_Witness ==
    \E c \in CallSlots :
        /\ calls[c].pc = "done"
        /\ calls[c].kind = "bootstrap-system"
        /\ calls[c].body = TokBadSig
        /\ calls[c].resp.status = 401
        /\ BootHas(calls[c].ops, "verify")
        /\ ~TouchesDatabase(c)

\* the call in the slot is a finished call of the installer / of the status
\* procedure, and what it returned
Installed(q) ==
    q.pc = "done" /\ q.proc = "bootstrap_install" /\ q.resp.status = 200
Reported(q) ==
    q.pc = "done" /\ q.proc = "bootstrap_status" /\ q.resp.status = 200
Bootstrapped(q) == Installed(q) /\ "bootstrapped" \in DOMAIN q.resp.body
AlreadyInitialized(q) ==
    Installed(q) /\ "already_initialized" \in DOMAIN q.resp.body

\* a call of the procedure is received and run in this step
Calls(proc) == started' = started + 1 /\ calls'[1].proc = proc

C15_Step ==
    /\ Calls("bootstrap_install") /\ db.objs = {}
       => Bootstrapped(calls'[1])
    /\ Calls("bootstrap_install") /\ Installed(calls[1])
       => AlreadyInitialized(calls'[1]) /\ db' = db
    /\ Calls("bootstrap_install")
       => bootstrap_status(db'.objs).ready
    /\ Calls("bootstrap_status") /\ Installed(calls[1])
       => Reported(calls'[1]) /\ calls'[1].resp.body.ready

\* C15: the installer called on a fresh schema returns bootstrapped; called
\* again after an install it returns already_initialized and leaves the
\* database as it is (no object is created a second time); after either call
\* the schema is ready, as computed and as a status call then reports
C15_InstallTwice == [][C15_Step]_vars

\* two installs in sequence on a schema that held nothing and holds now
\* exactly what the installer creates; the second returned already_initialized
C15_Witness ==
    /\ started = 2
    /\ AlreadyInitialized(calls[1])
    /\ db.objs = InstallObjects
    /\ db.rows = {}

C16_Step ==
    Calls("bootstrap_install")
    => /\ Installed(calls'[1])
       /\ db.objs \subseteq db'.objs
       /\ db'.rows = db.rows
       /\ db'.objs \ db.objs = InstallObjects \ db.objs
       /\ db'.acl = db.acl
       /\ Bootstrapped(calls'[1]) <=> db'.objs # db.objs

\* C16: from any schema state a run of the installer keeps every object and
\* every row that was there, and adds exactly the objects of its steps that
\* were absent (it reports bootstrapped exactly when it added one)
C16_Monotonic == [][C16_Step]_vars

\* one install on a schema that had both tables with their rows and a policy
\* of another migration, and lacked something: all of it is still there
C16_Witness ==
    /\ started = 1
    /\ Bootstrapped(calls[1])
    /\ db.rows = Rows
    /\ Policy("profiles", "insert") \in db.objs
    /\ InstallObjects \subseteq db.objs

\* the table has a policy for the command
Covers(objs, t, cmd) ==
    \E o \in objs : o.kind = "policy" /\ o.table = t /\ o.cmd = cmd

\* C17: after a successful run of the installer both application tables are
\* RLS-enabled and have a policy for each of select, insert, update, delete
C17_FourPolicies ==
    Installed(calls[1])
    => \A t \in Tables :
          /\ Rls(t) \in db.objs
          /\ \A cmd \in Commands : Covers(db.objs, t, cmd)

\* C18: an install that runs concurrently with another one does not fail:
\* every call of the installer that started to run ends with a success
\* result, also when another install created the object it had found missing
C18_RaceTolerated ==
    \A c \in CallSlots :
        /\ calls[c].pc = "done"
        /\ calls[c].proc = "bootstrap_install"
        /\ BootHas(calls[c].ops, "run")
        => calls[c].resp.status = 200

\* C19: a call of bootstrap_install or bootstrap_status with the key of a
\* role other than service_role is rejected before the procedure runs
C19_ServiceRoleOnly ==
    \A c \in CallSlots :
        calls[c].kind = "rpc" /\ calls[c].role # "service_role"
        => /\ ~BootHas(calls[c].ops, "run")
           /\ calls[c].pc \in {"idle", "rpc", "done"}
           /\ calls[c].pc = "done" => calls[c].resp.status # 200

\* the conjunction the readiness report is specified to compute: a policy
\* count covers select, insert, update and delete from four policies on
Complete(objs) ==
    /\ \A t \in Tables : Table(t) \in objs /\ Rls(t) \in objs
    /\ Trigger("profiles") \in objs
    /\ Trigger("projects") \in objs
    /\ idx_projects_user_id \in objs
    /\ \A t \in Tables : PolicyCount(objs, t) >= Cardinality(Commands)

\* C20: in every schema state the ready flag of the readiness report is the
\* conjunction of: both tables exist, RLS is on for both, both triggers and
\* the index exist, and each table has at least the four policies that
\* cover select, insert, update and delete
C20_ReadyIsConjunction ==
    Reported(calls[1]) => (calls[1].resp.body.ready <=> Complete(db.objs))

\* a status request or a call of the status procedure never is where the
\* installer is: it has no table check, no installer step, and made nothing
C21_Inv ==
    \A c \in CallSlots :
        calls[c].kind = "bootstrap-status" \/ calls[c].proc = "bootstrap_status"
        => /\ calls[c].proc = "bootstrap_status"
           /\ calls[c].pc \in {"idle", "jwtVerify", "rpc", "done"}
           /\ calls[c].made = {}
           /\ ~BootHas(calls[c].ops, "tableExists")

\* the database changes only where an installer returns and commits, and
\* the rows and the privileges do not change at all
C21_Step ==
    db' # db
    => /\ \E c \in CallSlots :
             /\ calls[c].pc = "return"
             /\ calls[c].proc = "bootstrap_install"
             /\ calls'[c].pc = "done"
             /\ db'.objs = db.objs \cup calls[c].made
       /\ db'.rows = db.rows
       /\ db'.acl = db.acl

\* C21: status calls write nothing: whatever runs at the same time, the
\* schema objects change only by the commit of an installer, rows never,
\* and a request of the status endpoint never runs the installer
C21_StatusReadOnly == []C21_Inv /\ [][C21_Step]_vars

\* the status endpoint has reported on the schema while an installer was at
\* work in another call, and the schema is still as it was found
C21_Witness ==
    \E c, d \in CallSlots :
        /\ calls[c].kind = "bootstrap-status"
        /\ calls[c].pc = "done"
        /\ calls[c].resp.status = 200
        /\ calls[c].resp.body.status.ready = FALSE
        /\ calls[d].pc = "create"
        /\ calls[d].made # {}
        /\ db.objs = {}

\* the user ids the mappers are compared on: the subjects of the requests
\* and the id of the test suite
user_test_123 == <<"u","s","e","r","_","t","e","s","t","_","1","2","3">>

\* isUuid of the test suite: the shape of a UUID string of version 1 to 5
isUuid(v) ==
    /\ Len(v) = 36
    /\ \A i \in 1..36 :
          IF i \in {9, 14, 19, 24} THEN v[i] = "-"
          ELSE \E n \in 1..16 : HexDigits[n] = v[i]
    /\ v[15] \in {"1", "2", "3", "4", "5"}
    /\ v[20] \in {"8", "9", "a", "b"}

MaxRestCalls == 3

\* the callers of the REST interface: the role and the sub of the JWT.
\* auth.uid() is the sub; a request with the anon key alone has none
RestCallers ==
    { [role |-> "authenticated", sub |-> MappedId(U1)],
      [role |-> "authenticated", sub |-> MappedId(U2)],
      [role |-> "anon", sub |-> Undefined] }

\* request bodies: the columns given; user_id may be left out
RestBodies ==
    { [name |-> n, user_id |-> u] :
        n \in {"n1", "n2"}, u \in {Undefined, MappedId(U1), MappedId(U2)} }

\* a policy set with no predicate at all
PermitsAll(objs, cmd, role, uid, row) == TRUE

\* the policies projects_<cmd>_own: for <cmd> to authenticated
\* using / with check (auth.uid() = user_id). A table with row security and
\* no policy for the command and the role permits nothing
Permits(objs, cmd, role, uid, row) ==
    \/ Rls("projects") \notin objs
    \/ /\ Policy("projects", cmd) \in objs
       /\ role = "authenticated"
       /\ uid # Undefined
       /\ uid = row.user_id

\* insert into public.projects: user_id uuid not null default auth.uid();
\* the new row must pass the check of the insert policy
RestInsert(d, who, body, id) ==
    LET row == [table |-> "projects", id |-> id, name |-> body.name,
                user_id |-> IF body.user_id = Undefined THEN who.sub
                            ELSE body.user_id]
    IN  IF who.role \notin d.grants
        THEN [rows |-> d.rows, resp |-> json(<<"permission denied">>, 403)]
        ELSE IF ~Permits(d.objs, "insert", who.role, who.sub, row)
        THEN [rows |-> d.rows, resp |-> json(<<"violates row-level security">>, 403)]
        ELSE [rows |-> d.rows \cup {row}, resp |-> json({row}, 201)]

\* select ... where id = eq.<id>: the rows the select policy lets through
RestSelect(d, who, id) ==
    IF who.role \notin d.grants
    THEN [rows |-> d.rows, resp |-> json(<<"permission denied">>, 403)]
    ELSE [rows |-> d.rows,
          resp |-> json({ r \in d.rows :
                           /\ r.id = id
                           /\ Permits(d.objs, "select", who.role, who.sub, r) },
                        200)]

\* update ... where id = eq.<id>: the rows the update policy lets through
\* (using), each new row checked against the same predicate (with check)
RestUpdate(d, who, id, body) ==
    LET hit == { r \in d.rows :
                   /\ r.id = id
                   /\ Permits(d.objs, "select", who.role, who.sub, r)
                   /\ Permits(d.objs, "update", who.role, who.sub, r) }
        new(r) == [r EXCEPT !.name = body.name,
                            !.user_id = IF body.user_id = Undefined THEN @
                                        ELSE body.user_id]
    IN  IF who.role \notin d.grants
        THEN [rows |-> d.rows, resp |-> json(<<"permission denied">>, 403)]
        ELSE IF \E r \in hit :
                   ~Permits(d.objs, "update", who.role, who.sub, new(r))
        THEN [rows |-> d.rows, resp |-> json(<<"violates row-level security">>, 403)]
        ELSE [rows |-> (d.rows \ hit) \cup { new(r) : r \in hit },
              resp |-> json({ new(r) : r \in hit }, 200)]

\* delete ... where id = eq.<id>: the rows the delete policy lets through
RestDelete(d, who, id) ==
    LET hit == { r \in d.rows :
                   /\ r.id = id
                   /\ Permits(d.objs, "select", who.role, who.sub, r)
                   /\ Permits(d.objs, "delete", who.role, who.sub, r) }
    IN  IF who.role \notin d.grants
        THEN [rows |-> d.rows, resp |-> json(<<"permission denied">>, 403)]
        ELSE [rows |-> d.rows \ hit, resp |-> json(hit, 200)]

\* one request of /rest/v1/projects: one statement, committed with the answer.
\* The id of a new row is uuid_generate_v4(): never one that was given before
Rest(method, who, id, body) ==
    /\ started < MaxRestCalls
    /\ started' = started + 1
    /\ UNCHANGED << client, impl, env, now, rateMap, sessionCache, users, req,
                    admitted, bootRate >>
    /\ LET out == CASE method = "POST"   -> RestInsert(db, who, body, started + 1)
                    [] method = "GET"    -> RestSelect(db, who, id)
                    [] method = "PATCH"  -> RestUpdate(db, who, id, body)
                    [] method = "DELETE" -> RestDelete(db, who, id)
       IN  /\ db' = [db EXCEPT !.rows = out.rows]
           /\ calls' = [calls EXCEPT ![1] =
                          [NoCall EXCEPT !.pc = "done", !.kind = "rest",
                                         !.method = method, !.role = who.role,
                                         !.body = [t |-> "rest", sub |-> who.sub,
                                                   id |-> id, row |-> body],
                                         !.resp = out.resp]]

\* the schema bootstrap_install() leaves, no rows, on either platform
InitRls ==
    /\ FederationIdle
    /\ db \in { Database(bootstrap_install({}, {}).objs, {}, g) :
                  g \in DefaultGrantees }
    /\ calls = [c \in CallSlots |-> NoCall]
    /\ bootRate = [e \in BootEndpoints |-> << >>]

NextRls ==
    \/ \E who \in RestCallers, body \in RestBodies :
          Rest("POST", who, 0, body)
    \/ \E who \in RestCallers, id \in 1..MaxRestCalls, body \in RestBodies :
          Rest("PATCH", who, id, body)
    \/ \E who \in RestCallers, id \in 1..MaxRestCalls, m \in {"GET", "DELETE"} :
          Rest(m, who, id, [name |-> "", user_id |-> Undefined])

SpecRls == InitRls /\ [][NextRls]_vars

\* the rows of the table that are not the caller's
RowsOfOthers(rows, uid) == { r \in rows : r.user_id # uid }

\* C22: whatever two identities (and an anonymous caller) insert, read, update
\* and delete on public.projects, a row that was inserted is owned by the
\* caller who inserted it, a read returns only rows the caller owns and
\* answers 200 with zero rows when its filter matches rows of someone else,
\* and the rows of the others stay in the table as they were
C22_Step ==
    started' = started + 1 =>
        LET q == calls'[1]
            uid == q.body.sub
        IN  /\ RowsOfOthers(db'.rows, uid) = RowsOfOthers(db.rows, uid)
            /\ \A r \in db'.rows \ db.rows : r.user_id = uid
            /\ q.method = "POST" /\ q.resp.status = 201
               => \E r \in db'.rows \ db.rows :
                     /\ r.user_id = uid
                     /\ uid # Undefined
                     /\ db'.rows = db.rows \cup {r}
            /\ q.method = "GET" /\ q.role \in db.grants
               => /\ q.resp.status = 200
                  /\ q.resp.body \subseteq db.rows \ RowsOfOthers(db.rows, uid)
            /\ q.method \in {"GET", "PATCH", "DELETE"}
               /\ q.resp.status = 200
               => q.resp.body \cap RowsOfOthers(db'.rows, uid) = {}

C22_RowIsolation == [][C22_Step]_vars

\* both identities own a row, and the last request was a read by one of
\* them of the row of the other: 200, no rows
C22_Witness ==
    /\ \E a, b \in db.rows :
          /\ a.user_id = MappedId(U1)
          /\ b.user_id = MappedId(U2)
          /\ calls[1].kind = "rest"
          /\ calls[1].method = "GET"
          /\ calls[1].body.sub = MappedId(U2)
          /\ calls[1].body.id = a.id
          /\ calls[1].resp = json({}, 200)

(***************************************************************************)
(* The diagnostics engine of the app                                       *)
(***************************************************************************)
TIMEOUT_MS == 3000

\* what becomes of a request: no answer ever arrives, the request fails, or
\* a response with a status and a parsed body arrives before the timer
NoAnswer == [t |-> "none"]
FetchFailed == [t |-> "failed"]
Http(status, data) == [t |-> "http", status |-> status, data |-> data]

\* a body that is null, or not an object
Null == [null |-> TRUE]

\* data?.<f> === v
Field(data, f, v) == f \in DOMAIN data /\ data[f] = v

\* fetchJsonWithTimeout: the timer aborts the fetch after TIMEOUT_MS. A
\* status of 0 and an error of "" stand for undefined; ms is the time the
\* request took (a response that arrives, arrives before the timer)
fetchJsonWithTimeout(a) ==
    CASE a.t = "none" ->
           [ok |-> FALSE, ms |-> TIMEOUT_MS, status |-> 0, error |-> "timeout",
            data |-> Null]
      [] a.t = "failed" ->
           [ok |-> FALSE, ms |-> 0, status |-> 0, error |-> "fetch failed",
            data |-> Null]
      [] a.t = "http" /\ a.status \notin 200..299 ->
           [ok |-> FALSE, ms |-> TIMEOUT_MS - 1, status |-> a.status,
            error |-> IF "error" \in DOMAIN a.data THEN a.data.error
                      ELSE "HTTP " \o ToString(a.status),
            data |-> Null]
      [] OTHER ->
           [ok |-> TRUE, ms |-> TIMEOUT_MS - 1, status |-> a.status,
            error |-> "", data |-> a.data]

\* classify without its timeout case
classifyNoTimeout(ok, status, error) ==
    IF ok THEN "ok"
    ELSE IF status = 404 THEN "not_deployed"
    ELSE IF status # 0 THEN "http_error"
    ELSE "unknown"

\* function classify(res)
classify(ok, status, error) ==
    IF ok THEN "ok"
    ELSE IF error = "timeout" THEN "timeout"
    ELSE IF status = 404 THEN "not_deployed"
    ELSE IF status # 0 THEN "http_error"
    ELSE "unknown"

\* function testHost: GET /auth/v1/health
testHost(a) ==
    LET res == fetchJsonWithTimeout(a)
    IN  [ok |-> res.ok, ms |-> res.ms, status |-> res.status,
         error |-> res.error, kind |-> classify(res.ok, res.status, res.error)]

\* function testEdgeFunction: POST or OPTIONS /functions/v1/<name>
testEdgeFunction(a) ==
    LET res == fetchJsonWithTimeout(a)
        ok == res.ok /\ ("success" \notin DOMAIN res.data \/ res.data.success = TRUE)
    IN  [ok |-> ok, ms |-> res.ms, status |-> res.status,
         error |-> IF ok THEN ""
                   ELSE IF res.ok
                        THEN (IF "error" \in DOMAIN res.data THEN res.data.error
                              ELSE "null")
                        ELSE res.error,
         data |-> res.data,
         kind |-> classify(ok, res.status,
                           IF ok \/ res.ok THEN "" ELSE res.error)]

\* function testRpc: bootstrap-status through testEdgeFunction
testRpc(a) ==
    LET res == testEdgeFunction(a)
        ok == Field(res.data, "success", TRUE) /\ "status" \in DOMAIN res.data
    IN  IF ~res.ok
        THEN [ok |-> FALSE, ms |-> res.ms, status |-> res.status,
              error |-> res.error, statusObj |-> Null,
              kind |-> classify(FALSE, res.status, res.error)]
        ELSE [ok |-> ok, ms |-> res.ms, status |-> res.status,
              error |-> IF ok THEN "" ELSE "rpc_status_failed",
              statusObj |-> IF "status" \in DOMAIN res.data THEN res.data.status
                            ELSE Null,
              kind |-> IF Field(res.data, "code", "bootstrap_rpc_missing")
                       THEN "bootstrap_rpc_missing"
                       ELSE IF ok THEN "ok" ELSE "unknown"]

\* the probes of runDiagnostics, in the order of its awaits
Probes ==
    << "host", "edgeClerkVerify", "rpcStatus", "edgeBootstrapSystem",
       "supabaseJwt" >>

\* the probe runDiagnostics awaits next, given the answers it has: the three
\* endpoint probes need params.clerkToken, the validation of the minted
\* token needs the session of edgeClerkVerify
NextProbe(clerkToken, v) ==
    IF "host" \notin DOMAIN v THEN "host"
    ELSE IF ~clerkToken THEN "done"
    ELSE IF "edgeClerkVerify" \notin DOMAIN v THEN "edgeClerkVerify"
    ELSE IF "rpcStatus" \notin DOMAIN v THEN "rpcStatus"
    ELSE IF "edgeBootstrapSystem" \notin DOMAIN v THEN "edgeBootstrapSystem"
    ELSE IF /\ "supabaseJwt" \notin DOMAIN v
            /\ testEdgeFunction(v.edgeClerkVerify).ok
            /\ "session" \in DOMAIN testEdgeFunction(v.edgeClerkVerify).data
         THEN "supabaseJwt"
    ELSE "done"

\* function runDiagnostics, given the answer v[p] to each probe p it makes
runDiagnostics(clerkToken, v) ==
    LET missing == [ok |-> FALSE, ms |-> 0, status |-> 0,
                    error |-> "clerk_token_missing", data |-> Null,
                    statusObj |-> Null, kind |-> ""]
        host == testHost(v.host)
        edgeClerkVerify ==
            IF clerkToken THEN testEdgeFunction(v.edgeClerkVerify) ELSE missing
        rpcStatus == IF clerkToken THEN testRpc(v.rpcStatus) ELSE missing
        edgeBootstrapSystem ==
            IF clerkToken THEN testEdgeFunction(v.edgeBootstrapSystem)
            ELSE missing
        supabaseJwt ==
            IF ~edgeClerkVerify.ok
            THEN [ok |-> FALSE, ms |-> 0, status |-> 0,
                  error |-> "bridge_not_attempted", kind |-> "unknown"]
            ELSE IF "session" \in DOMAIN edgeClerkVerify.data
            THEN testHost(v.supabaseJwt)
            ELSE [ok |-> FALSE, ms |-> edgeClerkVerify.ms, status |-> 0,
                  error |-> "missing_access_token", kind |-> "unknown"]
        connection == host.ok
        rpcInstalled == rpcStatus.ok
        schemaReady ==
            /\ rpcInstalled
            /\ Field(rpcStatus.statusObj, "projects_table", TRUE)
            /\ Field(rpcStatus.statusObj, "profiles_table", TRUE)
        errorCode ==
            IF ~connection THEN "supabase_unreachable"
            ELSE IF ~clerkToken THEN "clerk_token_missing"
            ELSE IF ~rpcInstalled /\ rpcStatus.error = "bootstrap_rpc_missing"
            THEN "bootstrap_rpc_missing"
            ELSE ""
    IN  [connection |-> connection, schemaReady |-> schemaReady,
         rpcInstalled |-> rpcInstalled, bridgeReady |-> supabaseJwt.ok,
         errorCode |-> errorCode,
         checks |-> [host |-> host, edgeClerkVerify |-> edgeClerkVerify,
                     edgeBootstrapSystem |-> edgeBootstrapSystem,
                     rpcStatus |-> rpcStatus, supabaseJwt |-> supabaseJwt]]

\* the answers a probe can get
Answers(p) ==
    CASE p = "host" -> {NoAnswer, FetchFailed, Http(200, Null)}
      [] p = "edgeClerkVerify" ->
           {NoAnswer, Http(404, Null),
            Http(401, [success |-> FALSE, error |-> "invalid_token",
                       code |-> "invalid_token"]),
            Http(200, Null),
            Http(200, [success |-> TRUE, session |-> [access_token |-> "jwt"]])}
      [] p = "rpcStatus" ->
           {NoAnswer, Http(404, Null),
            Http(500, [success |-> FALSE, error |-> "bootstrap_rpc_missing",
                       code |-> "bootstrap_rpc_missing"])}
           \cup { Http(200, [success |-> TRUE, status |-> bootstrap_status(objs)]) :
                    objs \in {{}, {set_updated_at, Table("profiles"),
                                   Table("projects")},
                             bootstrap_install({}, {}).objs} }
      [] p = "edgeBootstrapSystem" ->
           {NoAnswer, Http(404, Null),
            Http(200, [success |-> TRUE, already_initialized |-> TRUE])}
      [] p = "supabaseJwt" -> {NoAnswer, Http(401, Null), Http(200, Null)}

\* runDiagnostics is called
DiagStart(clerkToken) ==
    /\ client.pc \in {"idle", "done"}
    /\ client' = [prog |-> "runDiagnostics", pc |-> "host",
                  clerkToken |-> clerkToken, answers |-> << >>, log |-> << >>]
    /\ UNCHANGED << impl, env, now, rateMap, sessionCache, users, req, started,
                    admitted, db, calls, bootRate >>

\* the probe runDiagnostics awaits is settled: by a response, by a failure of
\* the request, or by the timer; the function goes on to its next await or
\* returns
DiagStep(a) ==
    /\ client.prog = "runDiagnostics"
    /\ client.pc \notin {"idle", "done"}
    /\ a \in Answers(client.pc)
    /\ LET v == client.pc :> a @@ client.answers
       IN  client' = [client EXCEPT
                        !.answers = v,
                        !.log = Append(@, client.pc),
                        !.pc = NextProbe(client.clerkToken, v)]
    /\ UNCHANGED << impl, env, now, rateMap, sessionCache, users, req, started,
                    admitted, db, calls, bootRate >>

DiagSteps ==
    \E a \in UNION { Answers(Probes[i]) : i \in DOMAIN Probes } : DiagStep(a)

InitDiag ==
    /\ FederationIdle
    /\ db = Database({}, {}, {"PUBLIC"})
    /\ calls = [c \in CallSlots |-> NoCall]
    /\ bootRate = [e \in BootEndpoints |-> << >>]

NextDiag ==
    \/ \E clerkToken \in BOOLEAN : DiagStart(clerkToken)
    \/ DiagSteps

SpecDiag == InitDiag /\ [][NextDiag]_vars

\* every await of runDiagnostics is settled: the timer of the probe fires
\* if nothing else does
SpecDiagLive == SpecDiag /\ WF_vars(DiagSteps)

\* the layer a probe belongs to: host, identity verification, installer
\* (its status and its reachability), validation of the minted token
Layer(p) ==
    CASE p = "host" -> 1 [] p = "edgeClerkVerify" -> 2
      [] p \in {"rpcStatus", "edgeBootstrapSystem"} -> 3
      [] p = "supabaseJwt" -> 4

\* the check of probe p in the result of the run so far
CheckOf(p) ==
    CASE p = "host" -> testHost(client.answers[p])
      [] p = "rpcStatus" -> testRpc(client.answers[p])
      [] p = "supabaseJwt" -> testHost(client.answers[p])
      [] OTHER -> testEdgeFunction(client.answers[p])

\* C23: the probes of a run are made in the order of the layers, a probe of
\* a later layer other than the status probe is made only after the probes
\* of the earlier layers succeeded, and a finished run has made the status
\* probe
C23_DependencyOrder ==
    client.prog = "runDiagnostics" =>
        /\ \A i, j \in DOMAIN client.log :
              i < j => Layer(client.log[i]) <= Layer(client.log[j])
        /\ \A i, j \in DOMAIN client.log :
              /\ i < j
              /\ Layer(client.log[i]) < Layer(client.log[j])
              /\ client.log[j] # "rpcStatus"
              => CheckOf(client.log[i]).ok
        /\ client.pc = "done" => \E i \in DOMAIN client.log : client.log[i] = "rpcStatus"

\* C24: every check of a run took at most TIMEOUT_MS; a probe that got no
\* answer is reported not ok with kind timeout; the run goes on after it:
\* with a token, a finished run has probed the host and the three endpoints
\* whatever the answers were, and the minted token exactly when the
\* verification endpoint returned a session; and every run finishes
C24_Inv ==
    client.prog = "runDiagnostics" =>
        /\ \A i \in DOMAIN client.log :
              /\ CheckOf(client.log[i]).ms <= TIMEOUT_MS
              /\ client.answers[client.log[i]] = NoAnswer
                 => /\ ~CheckOf(client.log[i]).ok
                    /\ CheckOf(client.log[i]).kind = "timeout"
        /\ client.pc = "done" =>
              LET d == runDiagnostics(client.clerkToken, client.answers)
                  n == Len(client.log)
              IN  /\ DOMAIN d = {"connection", "schemaReady", "rpcInstalled",
                                 "bridgeReady", "errorCode", "checks"}
                  /\ \A p \in DOMAIN d.checks : d.checks[p].ms <= TIMEOUT_MS
                  /\ client.log = SubSeq(Probes, 1, n)
                  /\ n = IF ~client.clerkToken THEN 1
                         ELSE IF /\ d.checks.edgeClerkVerify.ok
                                 /\ "session" \in DOMAIN d.checks.edgeClerkVerify.data
                         THEN 5 ELSE 4

C24_ProbesBounded ==
    /\ []C24_Inv
    /\ (client.prog = "runDiagnostics" /\ client.pc # "done")
          ~> (client.prog = "runDiagnostics" /\ client.pc = "done")

\* the status probe timed out, and the run went on to the installer endpoint
\* and to the validation of the minted token
C24_Witness ==
    /\ client.prog = "runDiagnostics"
    /\ client.pc = "done"
    /\ client.log = Probes
    /\ client.answers["rpcStatus"] = NoAnswer
    /\ runDiagnostics(client.clerkToken, client.answers).checks.rpcStatus.kind = "timeout"

\* C24 as stated: after a probe that got no answer, every probe that follows
\* it in the order of the run is made
C24_Original ==
    client.prog = "runDiagnostics" /\ client.pc = "done" /\ client.clerkToken =>
        \A i \in DOMAIN client.log :
            client.answers[client.log[i]] = NoAnswer => client.log = Probes

(***************************************************************************)
(* Auto-fix of the setup screen                                            *)
(***************************************************************************)
\* function isReady(d)
isReady(d) == d.connection /\ d.schemaReady /\ d.rpcInstalled /\ d.bridgeReady

\* every issue taken as fixable
FixableAll(code) == TRUE

\* AutoFixIssue: fixable is false for host_unreachable and edge_not_deployed
Fixable(code) == code \notin {"host_unreachable", "edge_not_deployed"}

\* function classifyIssues(d, clerkConnected): the codes of the issues
classifyIssues(d, clerkConnected) ==
    IF ~d.connection THEN <<"host_unreachable">>
    ELSE IF \/ d.checks.edgeBootstrapSystem.kind = "not_deployed"
            \/ d.checks.edgeClerkVerify.kind = "not_deployed"
    THEN <<"edge_not_deployed">>
    ELSE (IF ~d.rpcInstalled THEN <<"rpc_missing">> ELSE << >>)
         \o (IF ~d.schemaReady THEN <<"schema_missing">> ELSE << >>)
         \o (IF ~d.bridgeReady /\ clerkConnected
             THEN <<"bridge_not_authorized">> ELSE << >>)

\* the answers of POST bootstrap-system
InstallAnswers ==
    {NoAnswer,
     Http(500, [success |-> FALSE, code |-> "bootstrap_failed",
                error |-> "Could not find the function public.bootstrap_install"]),
     Http(401, [success |-> FALSE, code |-> "jwt_invalid",
                error |-> "jwt_invalid"]),
     Http(200, [success |-> TRUE, bootstrapped |-> TRUE]),
     Http(200, [success |-> TRUE, already_initialized |-> TRUE])}

\* function initializeDatabase, given the runtime configuration, the token
\* of the provider and the answer to its request; posted: the request was
\* made
initializeDatabase(cfg, token, a) ==
    IF ~cfg THEN [ok |-> FALSE, errorCode |-> "not_configured", posted |-> FALSE]
    ELSE IF ~token
    THEN [ok |-> FALSE, errorCode |-> "clerk_token_missing", posted |-> FALSE]
    ELSE IF a.t # "http"
    THEN [ok |-> FALSE, errorCode |-> "bootstrap_failed", posted |-> TRUE]
    ELSE IF a.status \notin 200..299 \/ a.data = Null
    THEN [ok |-> FALSE, posted |-> TRUE,
          errorCode |->
              IF Field(a.data, "error",
                       "Could not find the function public.bootstrap_install")
              THEN "bootstrap_rpc_missing" ELSE "bootstrap_failed"]
    ELSE IF /\ Field(a.data, "success", TRUE)
            /\ \/ Field(a.data, "bootstrapped", TRUE)
               \/ Field(a.data, "already_initialized", TRUE)
    THEN [ok |-> TRUE, errorCode |-> "", posted |-> TRUE]
    ELSE [ok |-> FALSE, errorCode |-> "bootstrap_failed", posted |-> TRUE]

\* function validateSystemConnection: runDiagnostics with the token of the
\* provider, or the result that says the app is not configured
validateSystemConnection(cfg, token, v) ==
    IF cfg THEN runDiagnostics(token, v)
    ELSE [connection |-> FALSE, schemaReady |-> FALSE, rpcInstalled |-> FALSE,
          bridgeReady |-> FALSE, errorCode |-> "not_configured"]

\* a deployment in which every probe succeeds
Healthy ==
    [host |-> Http(200, Null),
     edgeClerkVerify |->
         Http(200, [success |-> TRUE, session |-> [access_token |-> "jwt"]]),
     rpcStatus |->
         Http(200, [success |-> TRUE,
                    status |-> bootstrap_status(bootstrap_install({}, {}).objs)]),
     edgeBootstrapSystem |->
         Http(200, [success |-> TRUE, already_initialized |-> TRUE]),
     supabaseJwt |-> Http(200, Null)]

\* what a validation pass of autoFix can meet
AfterAnswers ==
    {Healthy, [Healthy EXCEPT !.host = NoAnswer],
     [Healthy EXCEPT !.rpcStatus = Http(404, Null)],
     [Healthy EXCEPT !.supabaseJwt = Http(401, Null)]}

\* function autoFix(diagnostics, opts), given what its awaits return: boot
\* from initializeDatabase, afterFailure from the validation pass that
\* follows a failed install, final from the last validation pass. calls:
\* what it called, in order
autoFix(d, clerkConnected, boot, afterFailure, final) ==
    LET remainingIssues == classifyIssues(d, clerkConnected)
        install == ~d.rpcInstalled \/ ~d.schemaReady
        bridge == ~d.bridgeReady /\ clerkConnected
        installCalls ==
            IF ~install THEN << >>
            ELSE IF boot.posted
            THEN <<"initializeDatabase", "POST bootstrap-system">>
            ELSE <<"initializeDatabase">>
    IN  IF isReady(d)
        THEN [attempted |-> FALSE, fixed |-> TRUE, remainingIssues |-> << >>,
              calls |-> << >>]
        ELSE IF \/ remainingIssues = << >>
                \/ \E i \in DOMAIN remainingIssues : ~Fixable(remainingIssues[i])
        THEN [attempted |-> FALSE, fixed |-> FALSE,
              remainingIssues |-> remainingIssues, calls |-> << >>]
        ELSE IF install /\ ~boot.ok
        THEN [attempted |-> TRUE, fixed |-> FALSE,
              remainingIssues |-> classifyIssues(afterFailure, clerkConnected),
              calls |-> installCalls \o <<"validateSystemConnection">>]
        ELSE [attempted |-> install \/ bridge,
              fixed |-> isReady(final),
              remainingIssues |->
                  IF isReady(final) THEN << >>
                  ELSE classifyIssues(final, clerkConnected),
              calls |-> installCalls
                        \o (IF bridge THEN <<"validateSystemConnection">>
                            ELSE << >>)
                        \o <<"validateSystemConnection">>]

\* autoFix is called with the result of the diagnostics that just ran; a is
\* the answer to the installer request, v1 and v2 the answers to the probes
\* of its validation passes
AutoFix(clerkConnected, cfg, token, a, v1, v2) ==
    /\ client.prog = "runDiagnostics"
    /\ client.pc = "done"
    /\ \E d \in {runDiagnostics(client.clerkToken, client.answers)},
          boot \in {initializeDatabase(cfg, token, a)},
          afterFailure \in {validateSystemConnection(cfg, token, v1)},
          final \in {validateSystemConnection(cfg, token, v2)} :
          client' = [prog |-> "autoFix", pc |-> "done", d |-> d,
                     clerkConnected |-> clerkConnected,
                     out |-> autoFix(d, clerkConnected, boot, afterFailure,
                                     final)]
    /\ UNCHANGED << impl, env, now, rateMap, sessionCache, users, req, started,
                    admitted, db, calls, bootRate >>

NextAutoFix ==
    \/ NextDiag
    \/ \E clerkConnected, cfg, token \in BOOLEAN, a \in InstallAnswers,
          v1, v2 \in AfterAnswers :
          AutoFix(clerkConnected, cfg, token, a, v1, v2)

SpecAutoFix == InitDiag /\ [][NextAutoFix]_vars

\* the diagnostics show a terminal issue
HostUnreachable(d) == ~d.connection
EdgeNotDeployed(d) ==
    \/ d.checks.edgeBootstrapSystem.kind = "not_deployed"
    \/ d.checks.edgeClerkVerify.kind = "not_deployed"

\* how often the run called f
Times(s, f) == Cardinality({ i \in DOMAIN s : s[i] = f })

\* C25: when the diagnostics show the host unreachable or an edge function
\* not deployed, autoFix returns attempted = false and fixed = false with
\* that one issue, and calls neither the installer nor the validation
C25_TerminalNotRetried ==
    client.prog = "autoFix" /\ (HostUnreachable(client.d) \/ EdgeNotDeployed(client.d))
    => /\ ~client.out.attempted
       /\ ~client.out.fixed
       /\ client.out.remainingIssues =
             IF HostUnreachable(client.d) THEN <<"host_unreachable">>
             ELSE <<"edge_not_deployed">>
       /\ client.out.calls = << >>

\* C26: autoFix calls initializeDatabase exactly when the diagnostics show
\* no terminal issue and the RPC missing or the schema incomplete, once, and
\* initializeDatabase posts to the installer at most once; a run that gets
\* past the terminal issues with something to fix ends with one validation
\* pass, preceded by a pass for the bridge exactly when the install did not
\* fail, the bridge is not ready and Clerk is connected; no other run
\* validates
C26_Inv ==
    client.prog = "autoFix" =>
        LET d == client.d
            log == client.out.calls
            terminal == HostUnreachable(d) \/ EdgeNotDeployed(d)
            install == ~terminal /\ (~d.rpcInstalled \/ ~d.schemaReady)
            bridge == ~terminal /\ ~d.bridgeReady /\ client.clerkConnected
        IN  /\ Times(log, "initializeDatabase") = IF install THEN 1 ELSE 0
            /\ Times(log, "POST bootstrap-system") <= Times(log, "initializeDatabase")
            /\ Times(log, "validateSystemConnection") \in 0..2
            /\ Times(log, "validateSystemConnection") = 0 <=> ~(install \/ bridge)
            /\ Times(log, "validateSystemConnection") = 2 => bridge
            /\ client.out.attempted <=> (install \/ bridge)

C26_OnlyFixableRetried == []C26_Inv

\* the schema was missing with the bridge ready: the installer was called
\* once and the run ended with its validation pass
C26_Witness ==
    /\ client.prog = "autoFix"
    /\ ~client.d.schemaReady
    /\ client.d.bridgeReady
    /\ client.out.calls = <<"initializeDatabase", "POST bootstrap-system",
                            "validateSystemConnection">>
    /\ client.out.fixed

\* C26 as stated: a validation is called only when the bridge is not ready
\* and Clerk is connected
C26_Original ==
    client.prog = "autoFix" /\ Times(client.out.calls, "validateSystemConnection") > 0
    => ~client.d.bridgeReady /\ client.clerkConnected

(***************************************************************************)
(* The command line programs: validate, health-check, setup-project        *)
(***************************************************************************)
\* an exit code that does not depend on the outcome
ExitCodeZero(ready) == 0

\* process.exit(ready ? 0 : 1)
ExitCode(ready) == IF ready THEN 0 ELSE 1

\* what a request of the validator meets: the request fails ("failed"), the
\* server answers with an error status ("error"), or it does what was asked
\* and answers 200 ("run")
Outcomes == {"failed", "error", "run"}

\* the inputs of the validator: dotenv loads; SUPABASE_URL and the service
\* role key are set; CLERK_TEST_JWT is set; the outcome of each request
ValidateInputs ==
    [dotenv : BOOLEAN, hasEnv : BOOLEAN, clerkTestJwt : BOOLEAN,
     a : [1..5 -> Outcomes]]

\* main of validate-foundation.ts on a database with the objects objs:
\* OPTIONS bootstrap-system, OPTIONS clerk-jwt-verify, POST bootstrap-system
\* (with a test token), rpc bootstrap_install, rpc bootstrap_status. The two
\* installs run on the server: objs is the schema they leave
validateFoundation(in, objs) ==
    LET edge == /\ in.clerkTestJwt
                /\ in.a[3] = "run"
                /\ Table("profiles") \notin objs
        objs3 == IF edge THEN bootstrap_install(objs, {}).objs ELSE objs
        objs4 == IF in.a[4] = "run" THEN bootstrap_install(objs3, {}).objs
                 ELSE objs3
        ok == in.a[5] = "run"
        ready == ok /\ bootstrap_status(objs4).ready
    IN  IF ~in.dotenv THEN [checks |-> << >>, exit |-> 1, objs |-> objs]
        ELSE IF ~in.hasEnv
        THEN [checks |-> << <<"CLI env present?", FALSE>>,
                            <<"Runtime config present?", TRUE>> >>,
              exit |-> 1, objs |-> objs]
        ELSE [checks |->
                << <<"CLI env present?", TRUE>>,
                   <<"Runtime config present?", TRUE>>,
                   <<"Edge function reachable? bootstrap-system", in.a[1] = "run">>,
                   <<"Edge function reachable? clerk-jwt-verify", in.a[2] = "run">>,
                   <<"Bootstrap via Edge (CLERK_TEST_JWT)",
                     ~in.clerkTestJwt \/ in.a[3] = "run">>,
                   <<"RPC exists? bootstrap_install()", in.a[4] = "run">>,
                   <<"RPC exists? bootstrap_status()", ok>>,
                   <<"DB ready? (bootstrap_status.ready)", ready>> >>,
              exit |-> ExitCode(ready), objs |-> objs4]

\* npm run validate
Validate(in) ==
    /\ client.pc = "idle"
    /\ \E out \in {validateFoundation(in, db.objs)} :
          /\ client' = [prog |-> "validate", pc |-> "done", in |-> in,
                        checks |-> out.checks, exit |-> out.exit]
          /\ db' = [db EXCEPT !.objs = out.objs]
    /\ UNCHANGED << impl, env, now, rateMap, sessionCache, users, req, started,
                    admitted, calls, bootRate >>

\* main of health-check.ts: the --env argument parses; SUPABASE_URL,
\* SUPABASE_ANON_KEY and CLERK_TEST_JWT are set; CI is "true"; diag: what
\* runDiagnostics returns when main awaits it
healthCheck(argsOk, hasEnv, ci, diag) ==
    IF ~argsOk THEN [ready |-> "NO", exit |-> 1]
    ELSE IF ~hasEnv THEN [ready |-> "SKIP", exit |-> IF ci THEN 0 ELSE 1]
    ELSE LET ready == /\ diag.connection /\ diag.schemaReady
                      /\ diag.rpcInstalled /\ diag.bridgeReady
         IN  [ready |-> IF ready THEN "YES" ELSE "NO", exit |-> ExitCode(ready)]

\* npm run health-check; v: the answers to the probes of runDiagnostics,
\* which is called with the test token
HealthCheck(argsOk, hasEnv, ci, v) ==
    /\ client.pc = "idle"
    /\ \E diag \in {runDiagnostics(TRUE, v)} :
       \E out \in {healthCheck(argsOk, hasEnv, ci, diag)} :
          client' = [prog |-> "health-check", pc |-> "done",
                     in |-> [argsOk |-> argsOk, hasEnv |-> hasEnv, ci |-> ci],
                     ready |-> out.ready, exit |-> out.exit]
    /\ UNCHANGED << impl, env, now, rateMap, sessionCache, users, req, started,
                    admitted, db, calls, bootRate >>

\* function run(cmd, args): throws unless the command ran and exited 0
run(ok) == ok

\* the environment variables setup-project requires, in the order it asks
SetupEnv ==
    << "SUPABASE_PROJECT_REF", "SUPABASE_DB_PASSWORD", "CLERK_JWT_ISSUER",
       "CLERK_EXPECTED_AUDIENCE" >>

\* the functions it deploys, in order
Functions == << "clerk-jwt-verify", "bootstrap-system", "bootstrap-status" >>

\* the inputs of setup-project: the arguments parse, --dry-run, CI, which
\* commands succeed, which variables are set (all, or all but one), whether
\* CLERK_JWT_ISSUER is a URL, whether the env file can be written
SetupInputs ==
    [argsOk : BOOLEAN, dryRun : BOOLEAN, ci : BOOLEAN,
     supabaseCli : BOOLEAN, clerkCli : BOOLEAN,
     set : { { SetupEnv[i] : i \in DOMAIN SetupEnv \ m } :
               m \in {{}} \cup { {i} : i \in DOMAIN SetupEnv } },
     issuerUrl : BOOLEAN, link : BOOLEAN, push : BOOLEAN,
     deploy : [DOMAIN Functions -> BOOLEAN], write : BOOLEAN]

\* a stage whose failure never ends the run
StageNotFatal(name, cmd, ok, fatal, shown) ==
    [name |-> name, cmd |-> cmd, ok |-> ok, fatal |-> FALSE, shown |-> shown]

\* one stage of main: the step it pushes, the command it spawns ("" if
\* none), whether it succeeded, whether main returns finish(steps, 1) when it
\* did not, and whether the step is pushed when it succeeded
Stage(name, cmd, ok, fatal, shown) ==
    [name |-> name, cmd |-> cmd, ok |-> ok, fatal |-> fatal, shown |-> shown]

\* the stages of main after the dry-run exit, in the order of the code
Stages(in) ==
    << Stage("Supabase CLI installed", "supabase --version",
             run(in.supabaseCli), TRUE, TRUE),
       Stage("Clerk CLI installed", "clerk --version",
             run(in.clerkCli), FALSE, TRUE) >>
    \o [i \in DOMAIN SetupEnv |->
          Stage("env: " \o SetupEnv[i], "", SetupEnv[i] \in in.set,
                TRUE, FALSE)]
    \o << Stage("Clerk JWT issuer valid URL", "", in.issuerUrl, TRUE, TRUE),
          Stage("Clerk expected audience present", "", TRUE, FALSE, TRUE),
          Stage("supabase link", "supabase link", run(in.link), TRUE, TRUE),
          Stage("supabase db push", "supabase db push", run(in.push), TRUE, TRUE) >>
    \o [i \in DOMAIN Functions |->
          Stage("deploy function: " \o Functions[i],
                "supabase functions deploy " \o Functions[i],
                run(in.deploy[i]), TRUE, TRUE)]
    \o << Stage("generate env file", "", in.ci \/ in.write, TRUE, TRUE) >>

\* main runs its stages in order and returns finish(steps, 1) at the first
\* fatal stage that fails, finish(steps, 0) after the last one
RECURSIVE RunStages(_, _, _)
RunStages(st, i, acc) ==
    IF i > Len(st) THEN acc
    ELSE LET s == st[i]
             next == [acc EXCEPT
                        !.steps = IF s.shown \/ ~s.ok
                                  THEN Append(@, <<s.name, s.ok>>) ELSE @,
                        !.ran = IF s.cmd = "" THEN @ ELSE Append(@, s.cmd)]
         IN  IF ~s.ok /\ s.fatal THEN [next EXCEPT !.exit = 1]
             ELSE RunStages(st, i + 1, next)

\* main of setup-project.ts: steps are the steps it pushed, ran the
\* commands it spawned
setupProject(in) ==
    IF ~in.argsOk THEN [steps |-> << >>, ran |-> << >>, exit |-> 1]
    ELSE IF in.dryRun
    THEN [steps |-> << <<"load env file", TRUE>> >>, ran |-> << >>, exit |-> 0]
    ELSE RunStages(Stages(in), 1,
                   [steps |-> << <<"load env file", TRUE>> >>, ran |-> << >>,
                    exit |-> 0])

\* npm run setup-project
SetupProject(in) ==
    /\ client.pc = "idle"
    /\ \E out \in {setupProject(in)} :
          client' = [prog |-> "setup-project", pc |-> "done",
                     in |-> [dryRun |-> in.dryRun, ci |-> in.ci],
                     steps |-> out.steps, ran |-> out.ran, exit |-> out.exit]
    /\ UNCHANGED << impl, env, now, rateMap, sessionCache, users, req, started,
                    admitted, db, calls, bootRate >>

\* the commands run against a project whose schema is in any state the
\* installer can leave or find
InitCli ==
    /\ FederationIdle
    /\ db \in { Database(objs, {}, {"PUBLIC"}) :
                  objs \in {{}, {Table("profiles")},
                            bootstrap_install({}, {}).objs} }
    /\ calls = [c \in CallSlots |-> NoCall]
    /\ bootRate = [e \in BootEndpoints |-> << >>]

NextCli ==
    \/ \E in \in ValidateInputs : Validate(in)
    \/ \E argsOk, hasEnv, ci \in BOOLEAN,
          v \in [host : Answers("host"),
                 edgeClerkVerify : Answers("edgeClerkVerify"),
                 rpcStatus : Answers("rpcStatus"),
                 edgeBootstrapSystem : Answers("edgeBootstrapSystem"),
                 supabaseJwt : Answers("supabaseJwt")] :
          HealthCheck(argsOk, hasEnv, ci, v)
    \/ \E in \in SetupInputs : SetupProject(in)

SpecCli == InitCli /\ [][NextCli]_vars

\* C27: the validator exits 0 exactly when it obtained the report of
\* bootstrap_status and the report says ready, and exits 1 in every other
\* outcome: dotenv failing, missing environment, a failed or refused status
\* call, ready = false
C27_ExitZeroIffReady ==
    client.prog = "validate" =>
        /\ client.exit \in {0, 1}
        /\ client.exit = 0 <=>
              /\ client.in.dotenv
              /\ client.in.hasEnv
              /\ client.in.a[5] = "run"
              /\ bootstrap_status(db.objs).ready
        /\ client.exit = 0 =>
              client.checks[Len(client.checks)] =
                  <<"DB ready? (bootstrap_status.ready)", TRUE>>

\* the validator found the RPC check failing (no install), the schema
\* complete all the same, and exited 0
C27_Witness ==
    /\ client.prog = "validate"
    /\ client.exit = 0
    /\ client.in.a[4] = "error"
    /\ <<"RPC exists? bootstrap_install()", FALSE>> \in
          { client.checks[i] : i \in DOMAIN client.checks }

\* C28: health-check exits 0 only in a run that printed System Ready: YES,
\* and exits 1 in every run that did not establish readiness
C28_ExitMatchesReady ==
    client.prog = "health-check" =>
        /\ client.exit = 0 => client.ready = "YES"
        /\ client.ready # "YES" => client.exit = 1

\* the steps a run of setup-project pushed that failed
FailedSteps == { i \in DOMAIN client.steps : ~client.steps[i][2] }

\* the commands of setup-project, in the order the run makes them
SetupCommands ==
    << "supabase --version", "clerk --version", "supabase link",
       "supabase db push", "supabase functions deploy clerk-jwt-verify",
       "supabase functions deploy bootstrap-system",
       "supabase functions deploy bootstrap-status" >>

\* C29: setup-project runs its commands in the order link, db push, deploy
\* of the three functions (after the two version probes); the first step
\* that fails, other than the probe of the Clerk CLI, is the last step of
\* the run, which exits 1; a run exits 0 only when every step but that probe
\* succeeded, and then it ran all the commands unless it was a dry run
C29_Inv ==
    client.prog = "setup-project" =>
        /\ client.exit \in {0, 1}
        /\ client.ran = SubSeq(SetupCommands, 1, Len(client.ran))
        /\ \A i \in FailedSteps :
              \/ client.steps[i][1] = "Clerk CLI installed"
              \/ i = Len(client.steps) /\ client.exit = 1
        /\ client.exit = 0 =>
              /\ \A i \in FailedSteps : client.steps[i][1] = "Clerk CLI installed"
              /\ client.in.dryRun \/ client.ran = SetupCommands
        /\ client.exit = 1 /\ client.steps # << >> => FailedSteps # {}

Digests ==
    LET bases == { e[2] : e \in Sha1Table }
                 \cup { [i \in 1..20 |-> b] : b \in {0, 255} }
    IN  bases
        \cup { [h EXCEPT ![7] = x] : h \in bases, x \in 0..255 }
        \cup { [h EXCEPT ![9] = x] : h \in bases, x \in 0..255 }

\* crypto.subtle.digest resolves with a digest
Digest(hash) ==
    /\ client.pc = "idle"
    /\ client' = [prog |-> "uuidV5FromString", pc |-> "then", hash |-> hash]
    /\ UNCHANGED << impl, env, now, rateMap, sessionCache, users, req, started,
                    admitted, db, calls, bootRate >>

\* the callback of uuidV5FromString runs on the digest
Then ==
    /\ client.prog = "uuidV5FromString"
    /\ client.pc = "then"
    /\ client' = [prog |-> "uuidV5FromString", pc |-> "done",
                  hash |-> client.hash, uuid |-> uuidV5OfDigest(client.hash)]
    /\ UNCHANGED << impl, env, now, rateMap, sessionCache, users, req, started,
                    admitted, db, calls, bootRate >>

NextUuid ==
    \/ \E hash \in Digests : Digest(hash)
    \/ Then

SpecUuid == InitDiag /\ [][NextUuid]_vars

\* C31: the identifier made from a digest is a canonical UUID string (36
\* characters, hyphens after 8, 12, 16 and 20 digits, lowercase hex), its
\* version nibble is 5, its variant bits are 10, and every other bit is the
\* bit of the first 16 bytes of the digest
C31_WellFormed ==
    client.prog = "uuidV5FromString" /\ client.pc = "done" =>
        LET uuid == client.uuid
            bytes == uuidToBytes(uuid)
        IN  /\ isUuid(uuid)
            /\ \A i \in 1..36 : uuid[i] \in {"-"} \cup { HexDigits[n] : n \in 1..16 }
            /\ uuid[15] = "5"
            /\ bytes[7] \div 16 = 5
            /\ bytes[9] \div 64 = 2
            /\ bytes[7] % 16 = client.hash[7] % 16
            /\ bytes[9] % 64 = client.hash[9] % 64
            /\ \A i \in (1..16) \ {7, 9} : bytes[i] = client.hash[i]

\* the mapper ran on a digest whose version nibble was not 5 and whose
\* variant bits were 11
C31_Witness ==
    /\ client.prog = "uuidV5FromString"
    /\ client.pc = "done"
    /\ client.hash[7] \div 16 = 15
    /\ client.hash[9] \div 64 = 3
    /\ client.uuid[15] = "5"
    /\ client.uuid[20] = "b"

(***************************************************************************)
(* The identity mapper separates subjects                                  *)
(***************************************************************************)
\* the second id of the test suite
user_test_124 == <<"u","s","e","r","_","t","e","s","t","_","1","2","4">>

\* the subjects the mapper is compared on
Subjects == {U1, U2, user_test_123, user_test_124}

\* the subjects whose mapped id is id
SubjectsOf(id) == { n \in Subjects : uuidV5FromString(n, NamespaceDns) = id }

\* a new isolate of the endpoint (empty limiter, empty cache) of a
\* deployment in which the second subject signed in before, with a token
\* that carried no e-mail: its user record is there
InitReturning ==
    /\ impl \in Impls
    /\ env = FullEnv
    /\ now = 0
    /\ rateMap = << >>
    /\ sessionCache = << >>
    /\ users = { [id |-> MappedId(U2), email |-> PlaceholderEmail(U2),
                  user_metadata |-> [clerk_iss |-> Issuer, clerk_user_id |-> U2],
                  app_metadata |-> [provider |-> "clerk"]] }
    /\ req = [r \in Slots |-> NoReq]
    /\ started = 0
    /\ admitted = << >>
    /\ BootIdle
    /\ client = NoClient

SpecReturning == InitReturning /\ [][Next]_vars

\* the mapper alone: distinct subjects, distinct ids, by both mappers
C32_MapperSeparates ==
    \A n1, n2 \in Subjects :
        n1 # n2 =>
           /\ uuidV5FromString(n1, NamespaceDns) # uuidV5FromString(n2, NamespaceDns)
           /\ uuidv5_node(n1, NamespaceDns) # uuidv5_node(n2, NamespaceDns)

\* C32: two distinct subjects are mapped to distinct ids; requests of
\* distinct subjects carry distinct mapped ids, no user record has the
\* mapped id of two subjects, and two requests of distinct subjects that
\* succeed receive access tokens of distinct users
C32_SubjectsSeparated ==
    /\ C32_MapperSeparates
    /\ \A r1, r2 \in Slots :
          /\ req[r1].supabaseUserId # Undefined
          /\ req[r2].supabaseUserId # Undefined
          /\ req[r1].clerkUserId # req[r2].clerkUserId
          => req[r1].supabaseUserId # req[r2].supabaseUserId
    /\ \A u \in users : Cardinality(SubjectsOf(u.id)) <= 1
    /\ \A r1, r2 \in Slots :
          ( /\ Succeeded(r1)
            /\ Succeeded(r2)
            /\ Subject(r1) # Subject(r2) ) =>
              AccessToken(r1).sub # AccessToken(r2).sub

(***************************************************************************)
(* The limiter after its window                                            *)
(***************************************************************************)
\* the endpoints just received RATE_LIMIT_MAX requests of one address
InitReset ==
    /\ impl \in Impls
    /\ env = FullEnv
    /\ now = 0
    /\ rateMap = ("10.0.0.1" :> [count |-> RATE_LIMIT_MAX,
                                 resetAt |-> RATE_LIMIT_WINDOW_MS])
    /\ sessionCache = << >>
    /\ users = {}
    /\ req = [r \in Slots |-> NoReq]
    /\ started = 0
    /\ admitted = ("10.0.0.1" :> [first |-> 0, n |-> RATE_LIMIT_MAX])
    /\ db = Database({}, {}, {"PUBLIC"})
    /\ calls = [c \in CallSlots |-> NoCall]
    /\ bootRate = BootSaturated
    /\ client = NoClient

\* a request to the installer endpoint, any number of them
BootArriveUnbounded(c, kind, method, ip, body) ==
    /\ BootFreeSlot(CallSlots, c)
    /\ started' = started
    /\ BootReceive(c, kind, method, ip, body)

NextReset ==
    \/ Tick(Instants)
    \/ \E r \in Slots :
          FreeSlot(Slots, r) /\ ArriveUnbounded(r, "POST", "10.0.0.1", BodyNoToken)
    \/ \E c \in CallSlots :
          BootArriveUnbounded(c, "bootstrap-system", "POST", "10.0.0.1", BodyNoToken)

SpecReset == InitReset /\ [][NextReset]_vars

\* the entry of ip in a limiter map m refuses at the current instant
Limited(m, ip) ==
    /\ ip \in DOMAIN m
    /\ m[ip].count >= RATE_LIMIT_MAX
    /\ now <= m[ip].resetAt

\* the window of the entry of ip has elapsed
Elapsed(m, ip) == ip \in DOMAIN m /\ now > m[ip].resetAt

\* a step from limiter map m to m2: an entry that refuses stays as it is,
\* count and resetAt; an entry changes only by one admission, which starts a
\* window with count 1 when there is no entry or its window has elapsed, and
\* adds 1 to the count otherwise
LimiterStep(m, m2) ==
    /\ DOMAIN m \subseteq DOMAIN m2
    /\ \A ip \in DOMAIN m : Limited(m, ip) => m2[ip] = m[ip]
    /\ \A ip \in DOMAIN m2 :
          (ip \notin DOMAIN m \/ m2[ip] # m[ip]) =>
              IF ip \notin DOMAIN m \/ Elapsed(m, ip)
              THEN m2[ip] = [count |-> 1, resetAt |-> now + RATE_LIMIT_WINDOW_MS]
              ELSE m2[ip] = [m[ip] EXCEPT !.count = @ + 1]

\* C33, one step: a request refused with 429 leaves the limiter as it was;
\* a POST that arrives when the window of its address has elapsed is
\* admitted and starts a window with count 1
C33_Step ==
    /\ LimiterStep(rateMap, rateMap')
    /\ \A e \in BootEndpoints : LimiterStep(bootRate[e], bootRate'[e])
    /\ \A r \in Slots :
          req'[r] # req[r] =>
             /\ req'[r].resp.status = 429 => rateMap' = rateMap
             /\ Elapsed(rateMap, req'[r].ip) =>
                   /\ req'[r].resp.status # 429
                   /\ ~req'[r].limited
                   /\ rateMap'[req'[r].ip].count = 1
    /\ \A c \in CallSlots :
          calls'[c] # calls[c] =>
             /\ calls'[c].resp.status = 429 => bootRate' = bootRate
             /\ Elapsed(bootRate[calls'[c].kind], calls'[c].ip) =>
                   /\ calls'[c].resp.status # 429
                   /\ bootRate'[calls'[c].kind][calls'[c].ip].count = 1

C33_AdmittedAgain == [][C33_Step]_vars

\* at each endpoint a request of the address was refused, and a later one,
\* after the window, was admitted and started a window with count 1
C33_Witness ==
    /\ now > RATE_LIMIT_WINDOW_MS
    /\ rateMap["10.0.0.1"] = [count |-> 1, resetAt |-> now + RATE_LIMIT_WINDOW_MS]
    /\ \E r1, r2 \in Slots :
          /\ Failed(r1, 429, "rate_limited")
          /\ Failed(r2, 400, "invalid_body")
    /\ bootRate["bootstrap-system"]["10.0.0.1"].count = 1
    /\ \E c1, c2 \in CallSlots :
          /\ calls[c1].resp.status = 429
          /\ calls[c2].resp.status = 400

(***************************************************************************)
(* The session cache over time                                             *)
(***************************************************************************)
\* the instants around the period of the cache
CacheInstants ==
    { b + o : b \in 0..MaxSkew, o \in {0, SESSION_CACHE_TTL_MS} }

\* a first and a second request
Pair == {1, 2}

\* requests of one subject, in flight together or one after the other,
\* while the clock moves
NextExpiry ==
    \/ Tick(CacheInstants)
    \/ \E r \in Pair : Arrive(Pair, r, "POST", "10.0.0.1", TokA1, MaxRequests)
    \/ Steps(Pair)

SpecExpiry == InitConfigured /\ [][NextExpiry]_vars

\* request r makes its cache lookup in this step
Lookup(r) ==
    /\ req[r].pc = "jwtVerify"
    /\ Has(req'[r].ops, "cache_get")

\* the entry of id was stored more than SESSION_CACHE_TTL_MS ago
Expired(id) ==
    /\ id \in DOMAIN sessionCache
    /\ now > sessionCache[id].expiresAt

\* C34, one step: a lookup is answered from the cache only with the entry
\* of the id, stored at most SESSION_CACHE_TTL_MS earlier; a lookup that
\* finds the entry expired removes it, answers nothing and sends the
\* request on to ensureAuthUser; the session the request then gets is made
\* at that instant and stored for another SESSION_CACHE_TTL_MS
C34_Step ==
    \A r \in Slots :
        /\ Lookup(r) /\ req'[r].pc = "done" =>
              LET id == MappedId(Subject(r))
              IN  /\ id \in DOMAIN sessionCache
                  /\ now <= sessionCache[id].expiresAt
                  /\ req'[r].resp.body.session.access_token =
                        sessionCache[id].access_token
                  /\ NowSeconds - req'[r].resp.body.session.access_token.iat
                        <= SESSION_CACHE_TTL_MS \div 1000
        /\ Lookup(r) /\ Expired(MappedId(Subject(r))) =>
              /\ req'[r].pc = "getUserById"
              /\ req'[r].resp.status = 0
              /\ MappedId(Subject(r)) \notin DOMAIN sessionCache'
        /\ ( /\ impl = "session"
             /\ req[r].pc = "verifyOtp"
             /\ req'[r].resp.status = 200 ) =>
              LET id == req[r].supabaseUserId
              IN  /\ req'[r].resp.body.session.access_token.iat = NowSeconds
                  /\ sessionCache'[id].expiresAt = now + SESSION_CACHE_TTL_MS
                  /\ sessionCache'[id].access_token =
                        req'[r].resp.body.session.access_token

C34_NoStaleSession == [][C34_Step]_vars

\* the first request got a session at the start and stored it; the entry
\* is gone: the second request, of the same subject, found it expired and
\* removed it, went on, found the user, and is about to get its own session
C34_Witness ==
    /\ impl = "session"
    /\ Succeeded(1)
    /\ Has(req[1].ops, "cache_set")
    /\ AccessToken(1).iat = 0
    /\ req[2].pc = "verifyOtp"
    /\ Subject(1) = Subject(2)
    /\ now > SESSION_CACHE_TTL_MS
    /\ MappedId(Subject(1)) \notin DOMAIN sessionCache
    /\ Has(req[2].ops, "cache_get")
    /\ Answered(req[2].ops, "lookup", "found")

(***************************************************************************)
(* The installer endpoint and readiness                                    *)
(***************************************************************************)
\* C35: when a POST to bootstrap-system has answered 200 (bootstrapped or
\* already_initialized), whatever the schema was before, the status
\* procedure reports ready = true on the schema it leaves
C35_SuccessMeansReady ==
    \A c \in CallSlots :
        ( /\ calls[c].pc = "done"
          /\ calls[c].kind = "bootstrap-system"
          /\ calls[c].method = "POST"
          /\ calls[c].resp.status = 200 ) =>
            bootstrap_status(db.objs).ready

\* C36: in every schema state the status procedure reports ready = true
\* exactly when the installer, run in that state, creates nothing and
\* returns already_initialized
C36_InstallerAgreesWithStatus ==
    LET installed == bootstrap_install(db.objs, db.rows)
    IN  bootstrap_status(db.objs).ready
        <=> /\ installed.objs = db.objs
            /\ installed.data = [success |-> TRUE, already_initialized |-> TRUE]

\* one direction of C36: where the installer has nothing to create, the
\* status procedure reports ready
C36_InstalledIsReady ==
    LET installed == bootstrap_install(db.objs, db.rows)
    IN  installed.data = [success |-> TRUE, already_initialized |-> TRUE]
        => bootstrap_status(db.objs).ready

(***************************************************************************)
(* Client readiness and the readiness report                               *)
(***************************************************************************)
\* the readiness report runDiagnostics fetched in the run that has returned
FetchedReport == client.answers.rpcStatus.data.status

\* C37: when a diagnostics run has returned connection, schemaReady,
\* rpcInstalled and bridgeReady all true, the readiness report it fetched
\* has ready = true
C37_ReadyMeansReportReady ==
    ( /\ client.prog = "runDiagnostics"
      /\ client.pc = "done"
      /\ isReady(runDiagnostics(client.clerkToken, client.answers)) ) =>
        FetchedReport.ready

\* what the code does give: a run that returned the four flags true fetched
\* a report in which both tables exist
C37_ReadyMeansTablesReported ==
    ( /\ client.prog = "runDiagnostics"
      /\ client.pc = "done"
      /\ isReady(runDiagnostics(client.clerkToken, client.answers)) ) =>
        FetchedReport.projects_table /\ FetchedReport.profiles_table

\* C38: whenever autoFix returns fixed = false it returns at least one
\* remaining issue, for every diagnostics result, clerkConnected value,
\* installer outcome and validation outcome
C38_UnfixedNamesAnIssue ==
    ( /\ client.prog = "autoFix"
      /\ client.pc = "done"
      /\ ~client.out.fixed ) =>
        client.out.remainingIssues # << >>

\* what the code does give: with clerkConnected true, an autoFix that
\* stopped before any repair and reports fixed = false names an issue
C38_ConnectedUnfixedNamesAnIssue ==
    ( /\ client.prog = "autoFix"
      /\ client.pc = "done"
      /\ client.clerkConnected
      /\ ~client.out.attempted
      /\ ~client.out.fixed ) =>
        client.out.remainingIssues # << >>

(***************************************************************************)
(* Preflight requests                                                      *)
(***************************************************************************)
\* any deployment: either implementation of the federation endpoint, an
\* environment with or without every name, the limiters fresh or exhausted,
\* the schema absent or installed
InitPreflight ==
    /\ impl \in Impls
    /\ env \in EnvConfigs
    /\ now = 0
    /\ \/ rateMap = << >> /\ admitted = << >>
       \/ /\ rateMap = ("10.0.0.1" :> [count |-> RATE_LIMIT_MAX,
                                       resetAt |-> RATE_LIMIT_WINDOW_MS])
          /\ admitted = ("10.0.0.1" :> [first |-> 0, n |-> RATE_LIMIT_MAX])
    /\ sessionCache = << >>
    /\ users = {}
    /\ req = [r \in Slots |-> NoReq]
    /\ started = 0
    /\ db \in { Database(objs, {}, {"PUBLIC"}) : objs \in {{}, InstallObjects} }
    /\ calls = [c \in CallSlots |-> NoCall]
    /\ bootRate \in { [e \in BootEndpoints |-> << >>], BootSaturated }
    /\ client = NoClient

\* POST and OPTIONS requests to the three endpoints, received while other
\* requests are in flight
NextPreflight ==
    \/ \E r \in Pair, m \in {"POST", "OPTIONS"}, b \in {TokA1, BodyNoToken} :
          Arrive(Pair, r, m, "10.0.0.1", b, MaxBootCalls)
    \/ Steps(Pair)
    \/ \E c \in Pair, e \in BootEndpoints, m \in {"POST", "OPTIONS"},
          b \in {TokA1, BodyNoToken} :
          BootArrive(Pair, c, e, m, b, MaxBootCalls)
    \/ BootSteps(Pair)

SpecPreflight == InitPreflight /\ [][NextPreflight]_vars

\* the body of the preflight response of each endpoint
PreflightBody(kind) ==
    CASE kind = "clerk-jwt-verify" ->
           [success |-> TRUE,
            session |-> [access_token |-> NoToken,
                         refresh_token |-> IF impl = "mint" THEN "null" ELSE ""]]
      [] kind = "bootstrap-system" ->
           [success |-> TRUE, already_initialized |-> TRUE]
      [] kind = "bootstrap-status" -> [success |-> TRUE, status |-> "null"]

\* everything a handler can change besides the record of its own request
Shared ==
    << impl, env, now, rateMap, admitted, sessionCache, users, db, bootRate,
       client >>

\* in this step the federation endpoint received an OPTIONS request in slot r
FedPreflight(r) ==
    /\ started' = started + 1
    /\ req'[r] # req[r]
    /\ req'[r].method = "OPTIONS"

\* in this step a bootstrap endpoint received an OPTIONS request in slot c
BootPreflight(c) ==
    /\ started' = started + 1
    /\ calls'[c] # calls[c]
    /\ calls'[c].method = "OPTIONS"

C39_Step ==
    /\ \A r \in Slots :
         /\ FedPreflight(r) =>
              /\ req'[r].pc = "done"
              /\ req'[r].resp = json(PreflightBody("clerk-jwt-verify"), 200)
              /\ req'[r].ops = << >>
              /\ ~req'[r].limited
              /\ \A i \in Slots \ {r} : req'[i] = req[i]
              /\ calls' = calls
              /\ UNCHANGED Shared
         /\ ( /\ req[r].pc = "done"
              /\ req[r].method = "OPTIONS"
              /\ req'[r] # req[r] ) => started' = started + 1
    /\ \A c \in CallSlots :
         /\ BootPreflight(c) =>
              /\ calls'[c].pc = "done"
              /\ calls'[c].resp = json(PreflightBody(calls'[c].kind), 200)
              /\ calls'[c].ops = << >>
              /\ calls'[c].made = {}
              /\ \A i \in CallSlots \ {c} : calls'[i] = calls[i]
              /\ req' = req
              /\ UNCHANGED Shared
         /\ ( /\ calls[c].pc = "done"
              /\ calls[c].method = "OPTIONS"
              /\ calls'[c] # calls[c] ) => started' = started + 1

\* C39: an OPTIONS request to the federation endpoint, to bootstrap-system
\* or to bootstrap-status is answered in the step that receives it with the
\* 200 preflight body of its endpoint; it consults no limiter, reads no
\* environment, verifies no token, leaves the cache, the users, the schema
\* and every other request as they were, and nothing is done for it later
C39_PreflightHasNoEffect == [][C39_Step]_vars

\* preflights answered where a POST would be refused or would install: the
\* federation limiter is exhausted, the schema is empty, the limiter of
\* bootstrap-system is exhausted
C39_Witness ==
    /\ req[1].pc = "done"
    /\ req[1].method = "OPTIONS"
    /\ req[1].resp.status = 200
    /\ "10.0.0.1" \in DOMAIN rateMap
    /\ rateMap["10.0.0.1"].count = RATE_LIMIT_MAX
    /\ calls[1].pc = "done"
    /\ calls[1].method = "OPTIONS"
    /\ calls[1].kind = "bootstrap-system"
    /\ calls[1].resp.body = [success |-> TRUE, already_initialized |-> TRUE]
    /\ db.objs = {}
    /\ bootRate = BootSaturated

(***************************************************************************)
(* Failure texts of the federation endpoint                                *)
(***************************************************************************)
\* messages of exceptions thrown by the client library or the runtime while
\* the handler awaits a call; prefix is what startsWith can match
ThrownMessages ==
    { [prefix |-> "", text |-> "fetch failed"],
      [prefix |-> "", text |-> "connect ECONNREFUSED db.internal:5432"] }

\* a handler whose catch blocks return the message of the exception
ThrowsEchoing(r, msg) ==
    /\ req[r].pc \in {"getUserById", "createUser", "recheck", "generateLink",
                      "verifyOtp", "sign"}
    /\ UNCHANGED << client, db, calls, bootRate, impl, env, now, rateMap,
                    sessionCache, users, started, admitted >>
    /\ Respond(r, Op(req[r], <<"throw", "">>),
               json(Err(msg.text, "internal_error"), 500))

\* the call the handler awaits throws: inside ensureAuthUser the inner catch
\* answers, anywhere else the catch of the handler
Throws(r, msg) ==
    /\ req[r].pc \in {"getUserById", "createUser", "recheck", "generateLink",
                      "verifyOtp", "sign"}
    /\ UNCHANGED << client, db, calls, bootRate, impl, env, now, rateMap,
                    sessionCache, users, started, admitted >>
    /\ LET q == Op(req[r], <<"throw", "">>)
       IN  IF req[r].pc \in {"getUserById", "createUser", "recheck"}
           THEN IF msg.prefix = "USER_CREATE_FAILED:"
                THEN Respond(r, q, json(Err("Failed to create user",
                                            "user_create_failed"), 500))
                ELSE Respond(r, q, json(Err("Internal error", "internal_error"), 500))
           ELSE IF msg.prefix = "Missing env:"
                THEN Respond(r, q, json(Err("Missing env", "env_missing"), 500))
                ELSE Respond(r, q, json(Err("Internal error", "internal_error"), 500))

\* one request at a time, of any method and body, before or after the limit
\* is reached; every awaited call can answer, fail or throw
NextErrors ==
    \/ \E m \in Methods, b \in Bodies :
          Arrive({1}, 1, m, "10.0.0.1", b, MaxGateRequests)
    \/ Steps({1})
    \/ \E msg \in ThrownMessages : Throws(1, msg)

SpecErrors == (Init \/ InitSaturated) /\ [][NextErrors]_vars

\* the steps of the handler that can end a request with a failure
FailingSteps ==
    { "method", "checkRateLimit", "getEnv", "req.json", "clerkToken",
      "jwtVerify", "issuer", "sub", "ensureAuthUser", "generateLink",
      "verifyOtp", "exception" }

\* the failure response of each step, as written in the handler
FailureOf(step) ==
    CASE step = "method" -> json(Err("Method not allowed", "invalid_body"), 405)
      [] step = "checkRateLimit" -> json(Err("rate_limited", "rate_limited"), 429)
      [] step = "getEnv" -> json(Err("Missing env", "env_missing"), 500)
      [] step = "req.json" -> json(Err("Internal error", "internal_error"), 500)
      [] step = "clerkToken" ->
           json(Err("Invalid body. Expected { clerkToken: string }",
                    "invalid_body"), 400)
      [] step = "jwtVerify" -> json(Err("jwt_invalid", "jwt_invalid"), 401)
      [] step = "issuer" -> json(Err("Invalid issuer", "jwt_issuer_invalid"), 401)
      [] step = "sub" -> json(Err("Missing user_id", "jwt_invalid"), 401)
      [] step = "ensureAuthUser" ->
           json(Err("Failed to create user", "user_create_failed"), 500)
      [] step = "generateLink" ->
           json(Err("Failed to generate session", "session_create_failed"), 500)
      [] step = "verifyOtp" ->
           json(Err("Failed to create session", "session_create_failed"), 500)
      [] step = "exception" -> json(Err("Internal error", "internal_error"), 500)

\* this step ends request r with a failure response
FailsNow(r) ==
    /\ req'[r] # req[r]
    /\ req'[r].pc = "done"
    /\ req'[r].resp.body.success = FALSE

\* the step at which a request that was just received failed
ReceiveStep(r) ==
    IF req'[r].method # "POST" THEN "method"
    ELSE IF req'[r].limited THEN "checkRateLimit"
    ELSE IF EnvMissing THEN "getEnv"
    ELSE IF req'[r].body.t = "notjson" THEN "req.json"
    ELSE "clerkToken"

\* the step at which the verification of token failed, given the outcome
\* of the key fetch
VerifyStep(token, jwksOk) ==
    IF ~jwtVerifyOk(token, jwksOk) THEN "jwtVerify"
    ELSE IF token.payload.iss # env["CLERK_JWT_ISSUER"] THEN "issuer"
    ELSE "sub"

C40_Step ==
    \A r \in Slots :
        FailsNow(r) =>
            /\ req'[r].resp \in { FailureOf(s) : s \in FailingSteps }
            /\ \A s \in FailingSteps :
                 req'[r].resp = FailureOf(s) =>
                     DOMAIN req'[r].resp.body = {"success", "error", "code"}
            /\ started' # started => req'[r].resp = FailureOf(ReceiveStep(r))
            /\ \A k \in BOOLEAN :
                 JwtVerify(r, k) =>
                     req'[r].resp = FailureOf(VerifyStep(req[r].body, k))
            /\ \A f \in BOOLEAN :
                 (GetUserById(r, f) \/ CreateUser(r, f) \/ Recheck(r, f)) =>
                     req'[r].resp = FailureOf("ensureAuthUser")
            /\ \A f \in BOOLEAN :
                 GenerateLink(r, f) => req'[r].resp = FailureOf("generateLink")
            /\ \A f \in BOOLEAN :
                 VerifyOtp(r, f) => req'[r].resp = FailureOf("verifyOtp")
            /\ \A msg \in ThrownMessages :
                 Throws(r, msg) => req'[r].resp = FailureOf("exception")

\* C40: every failure response of the federation endpoint is the fixed
\* response of the step that failed: its text does not depend on the
\* request, on the state, or on the message of an upstream error or of a
\* thrown exception
C40_FixedFailureTexts == [][C40_Step]_vars

\* two requests refused by the same step for different upstream reasons:
\* request 1 ended when an awaited call threw, after the token was verified
C40_Witness ==
    /\ req[1].pc = "done"
    /\ req[1].resp = json(Err("Internal error", "internal_error"), 500)
    /\ Has(req[1].ops, "throw")
    /\ Has(req[1].ops, "verify")

====
